---- MODULE Spec2Model ----
(***************************************************************************)
(* Extension discovery and resolution pipeline of vdm-vscode:              *)
(*   - the library dependency resolver (AddLibraryHandler),                *)
(*   - the metadata discovery passes and their name-collision resolution   *)
(*     (AddLibraryHandler, ManagePluginsHandler, ManageAnnotationsHandler),*)
(*   - the search-path resolver and scope merger (VDMJExtensionsHandler), *)
(*   - the enabled/disabled state of plugins and annotations               *)
(*     (ManagePluginsHandler, ManageAnnotationsHandler),                   *)
(*   - lazy reading of archive entries (JarFile),                          *)
(*   - adding the selected libraries to a workspace folder                 *)
(*     (AddLibraryHandler.addLibFilesToTarget, copyLibFilesToTarget),      *)
(*   - the selection dialog on the state objects it is handed,             *)
(*   - two readFile calls in flight on one JarFile handle,                 *)
(*   - the class path of the server launch (ServerFactory.launchServer),   *)
(*   - the proof obligation panel and the messages it posts to its webview *)
(*     (ProofObligationPanel),                                             *)
(*   - the discovery passes of the three kinds side by side on the shared  *)
(*     jarCache.                                                           *)
(* Each part has its own specification over the shared variables.          *)
(***************************************************************************)
EXTENDS Integers, Sequences, FiniteSets, TLC

VARIABLES
    \* dependency resolver
    libSourceMap,   \* the catalog handed to resolveLibraryDependencies
    depRoot,        \* name of the library of the last call, "none" before any call
    depResult,      \* what the last call produced
    \* discovery passes
    kind,           \* "library" | "plugin" | "annotation": which handler runs
    dialect,        \* dialect in use
    precision,      \* precision argument of the passes
    jarMeta,        \* per archive: can it be opened, and its metadata entry
    sources,        \* what getAll...Sources returned, in enumeration order
    pc,             \* per pass: "idle" | "open" | "read" | "done" | "failed"
    idx,            \* per pass: index of the source being loaded
    sourceMapWithDuplicates,  \* per pass: name -> candidates, in load order
    sourceMap,      \* per pass: the catalog returned
    duplicateMap,   \* per pass: what findDuplicate... returned
    \* search-path resolution
    folderSettings, \* per workspace folder: extensionSearchPaths at folder scope
    userOrWorkspaceSettings,  \* extensionSearchPaths at workspace/user scope
    jarCache,       \* VDMJExtensionsHandler.jarCache
    lastPass,       \* the last getUserExtensionSources call and what it did
    \* assembly of the source list
    userExtensionSources,  \* what getUserExtensionSources returned
    enhancementPaths,      \* vdmjEnhancements paths of the installed host extensions
    includedJarsPaths,     \* the archives below the included (built-in) folder
    jarFiles,              \* per archive path: can it be opened, and its entries
    allSources,            \* the last getAll...Sources call and what it returned
    \* enablement of plugins and annotations
    extKind,               \* "plugin" | "annotation": which manage handler is meant
    discovered,            \* the catalog getAll...Info returns for the folder
    enabledConfiguration,  \* the stored `enabled` setting: name -> boolean
    managePc,              \* "idle" | "prompt": is the selection dialog open
    initialState,          \* the state derived when the command started
    updatedState,          \* what the prompt returned, undefined when dismissed
    manageRun,             \* the last finished command: its selection and whether it wrote
    classpathAdditions,    \* the last getClasspathAdditions call: its state and result
    compared,              \* the last areStatesEqual call: its arguments and result
    \* one JarFile handle
    zipEntries,            \* the entry table of the archive: file names in table order
    entriesRead,           \* how many entries the container has emitted
    isOpen,                \* _zipFile.isOpen
    cachedEntries,         \* JarFile._entries: file name -> entry (its table index)
    listeners,             \* the listeners registered on _zipFile
    readEntryPending,      \* readEntry() was called and has not emitted yet
    readCall,              \* the readFile call in progress or last settled
    pulled,                \* per table index: how often the entry was emitted
    readerRefs,            \* references held on the container's file reader
    closeCall,             \* the first close(): what the handle was doing, did it throw
    \* adding libraries to a workspace folder
    discoveredLibraries,   \* the catalog getAllLibInfo returned
    archiveFiles,          \* per library archive: the files it holds
    addRun,                \* the last addLibFilesToTarget call and what it did
    \* the dialog step of the manage handlers, on objects
    objects,               \* the state entries as objects: reference -> entry
    promptCall,            \* the last promptUserManage... call: its argument and result
    \* two readFile calls on one JarFile handle
    pairEntries,           \* the central directory of the archive, in order
    central,               \* the container: its cursor and the reads it was asked for
    scanCache,             \* the own properties of _entries
    scans,                 \* the two readFile calls
    \* launching the server of a folder
    launchEnv,             \* what launchServer reads: sources, states, settings, the disk
    classPath,             \* the -cp argument of the last launch
    \* the proof obligation panel
    panel,                 \* _panel: 0 when undefined, else the number of the webview panel
    panelCount,            \* panels created so far
    readySent,             \* the panels whose webview has sent readyToReceive
    onReady,               \* the promise onReady holds (its number)
    promises,              \* per promise: is it resolved, and its pending then-callbacks
    pogAwaiting,           \* onRunPog calls waiting for the provider
    qcAwaiting,            \* runQC handlers waiting for runQuickCheck
    started,               \* how many pog runs, QuickCheck runs and updates were started
    closed,                \* has a panel been closed by the user
    posted,                \* the postMessage calls attempted so far
    \* discovery passes of the three kinds running side by side
    passJars,              \* what each archive on disk holds
    passes,                \* per kind: where the pass is and what it has collected
    cacheAtStart,          \* the jarCache the passes started from
    overlapped             \* was a pass started while another was in flight

depVars == <<libSourceMap, depRoot, depResult>>

discEnv == <<kind, dialect, precision, jarMeta, sources>>

discVars == <<discEnv, pc, idx, sourceMapWithDuplicates, sourceMap, duplicateMap>>

pathVars == <<folderSettings, userOrWorkspaceSettings, jarCache, lastPass>>

srcVars == <<userExtensionSources, enhancementPaths, includedJarsPaths, jarFiles, allSources>>

enableVars == <<extKind, discovered, enabledConfiguration, managePc, initialState,
                updatedState, manageRun, classpathAdditions, compared>>

jarFileVars == <<zipEntries, entriesRead, isOpen, cachedEntries, listeners,
                 readEntryPending, readCall, pulled, readerRefs, closeCall>>

addVars == <<discoveredLibraries, archiveFiles, addRun>>

promptVars == <<objects, promptCall>>

pairVars == <<pairEntries, central, scanCache, scans>>

launchVars == <<launchEnv, classPath>>

pogVars == <<panel, panelCount, readySent, onReady, promises, pogAwaiting, qcAwaiting,
             started, closed, posted>>

concVars == <<passJars, passes, cacheAtStart, overlapped>>

vars == <<depVars, discVars, pathVars, srcVars, enableVars, jarFileVars, addVars, promptVars, pairVars, launchVars, pogVars, concVars>>

(***************************************************************************)
(* ECMAScript Map: an insertion-ordered list of key/value entries.  set()  *)
(* on an existing key replaces the value in place, on a new key appends.   *)
(***************************************************************************)
MapHas(m, k) == \E i \in 1..Len(m) : m[i].key = k

MapGet(m, k) == m[CHOOSE i \in 1..Len(m) : m[i].key = k].val

MapSet(m, k, v) ==
    IF MapHas(m, k)
    THEN [i \in 1..Len(m) |-> IF m[i].key = k THEN [key |-> k, val |-> v] ELSE m[i]]
    ELSE Append(m, [key |-> k, val |-> v])

MapKeys(m) == {m[i].key : i \in 1..Len(m)}

MapValues(m) == [i \in 1..Len(m) |-> m[i].val]

\* new Map(entries): the entries are set() one after the other
RECURSIVE MapFromEntries(_)
MapFromEntries(es) ==
    IF es = <<>> THEN <<>>
    ELSE LET last == es[Len(es)]
         IN MapSet(MapFromEntries(SubSeq(es, 1, Len(es) - 1)), last.key, last.val)

Range(s) == {s[i] : i \in 1..Len(s)}

(***************************************************************************)
(* Dependency resolver                                                     *)
(***************************************************************************)
\* names a library.json may declare or depend on
LibNames == {"L", "A", "C"}

NameOrder == <<"L", "A", "C">>

\* longest `depends` list of a library
MaxDeps == 2

\* call-stack frames available to the recursion; more than any walk of an
\* acyclic catalog over LibNames needs
MaxCallDepth == 5

DepLists == UNION {[1..k -> LibNames] : k \in 0..MaxDeps}

LibJar == [type |-> "builtin", jarPath |-> "libs.jar"]

\* SourcedLibraryMetadata
LibInfo(n, deps) == [name |-> n, depends |-> deps, source |-> LibJar]

\* the catalogs getAllLibInfo can return: key = metadata name
BuildCatalog(present, deps) ==
    LET names == SelectSeq(NameOrder, LAMBDA n : n \in present)
    IN [i \in 1..Len(names) |->
            [key |-> names[i], val |-> LibInfo(names[i], deps[names[i]])]]

\* RangeError: Maximum call stack size exceeded
StackOverflow == [overflow |-> TRUE, resolved |-> <<>>, unresolved |-> <<>>]

NoResult == [overflow |-> FALSE, resolved |-> <<>>, unresolved |-> <<>>]

DepIdle == libSourceMap = <<>> /\ depRoot = "none" /\ depResult = NoResult

\* resolvedDependencies = new Map([...resolvedDependencies, [name, dep], ...sub.resolved])
MergeResolved(resolved, dependencyName, resolvedDependency, subResolved) ==
    MapFromEntries(resolved
                   \o <<[key |-> dependencyName, val |-> resolvedDependency]>>
                   \o subResolved)

RECURSIVE ResolveLibraryDependencies(_, _, _)
RECURSIVE ResolveLoop(_, _, _, _, _, _)

\* the for loop over libInfo.depends, at index i
ResolveLoop(libInfo, catalog, depth, i, unresolved, resolved) ==
    IF i > Len(libInfo.depends)
    THEN [overflow |-> FALSE, resolved |-> resolved, unresolved |-> unresolved]
    ELSE LET dependencyName == libInfo.depends[i]
         IN IF ~MapHas(catalog, dependencyName)
            THEN ResolveLoop(libInfo, catalog, depth, i + 1,
                             Append(unresolved, dependencyName), resolved)
            ELSE LET resolvedDependency == MapGet(catalog, dependencyName)
                     sub == ResolveLibraryDependencies(resolvedDependency, catalog, depth - 1)
                 IN IF sub.overflow
                    THEN StackOverflow
                    ELSE ResolveLoop(libInfo, catalog, depth, i + 1,
                                     unresolved \o sub.unresolved,
                                     MergeResolved(resolved, dependencyName,
                                                   resolvedDependency, sub.resolved))

\* a library seeds the result with itself
ResolveSeededWithSelf(libInfo, catalog, depth) ==
    IF depth = 0 THEN StackOverflow
    ELSE ResolveLoop(libInfo, catalog, depth, 1, <<>>,
                     <<[key |-> libInfo.name, val |-> libInfo]>>)

\* only the direct dependencies are looked up
ResolveDirectOnly(libInfo, catalog, depth) ==
    LET present == SelectSeq(libInfo.depends, LAMBDA d : MapHas(catalog, d))
    IN [overflow |-> FALSE,
        resolved |-> MapFromEntries([i \in 1..Len(present) |->
                        [key |-> present[i], val |-> MapGet(catalog, present[i])]]),
        unresolved |-> SelectSeq(libInfo.depends, LAMBDA d : ~MapHas(catalog, d))]

ResolveLibraryDependencies(libInfo, catalog, depth) ==
    IF depth = 0 THEN StackOverflow
    ELSE ResolveLoop(libInfo, catalog, depth, 1, <<>>, <<>>)

(***************************************************************************)
(* Search-path resolution and scope merge: VDMJExtensionsHandler           *)
(***************************************************************************)
\* workspace folders; a folder's root is the directory of the same name
Folders == {"f1", "f2"}

\* resolveJarPathsFromSettings called without rootUri
NoRoot == "none"

\* working directory of the extension host
Cwd == "cwd"

\* a path: absolute or relative, its directory, and its file name ("" for a
\* path that names the directory itself)
Path(abs, dir, base) == [abs |-> abs, dir |-> dir, base |-> base]

\* the archive files on disk
Files == {Path(TRUE, "f1", "a.jar"), Path(TRUE, "w", "a.jar"), Path(TRUE, "w", "b.jar")}

BaseOrder == <<"a.jar", "b.jar">>

\* what a search-path setting may list: "a.jar", "/w/b.jar", "/w"
DeclaredPaths == {Path(FALSE, "", "a.jar"), Path(TRUE, "w", "b.jar"), Path(TRUE, "w", "")}

\* number of search paths declared over all scopes together
MaxDeclared == 4

\* the settings values with n declared paths
SettingLists(n) == [1..n -> DeclaredPaths]

\* Path.isAbsolute
IsAbsolute(p) == p.abs

\* Path.resolve(rootUri.fsPath, originalPath)
PathResolve(root, p) == Path(TRUE, root, p.base)

\* Path.basename
Basename(p) == p.base

\* the file system resolves a relative path against the working directory
OnDisk(p) == IF p.abs THEN p ELSE Path(TRUE, Cwd, p.base)

\* Fs.lstatSync(p).isDirectory()
IsDirectory(p) == p.base = ""

\* Fs.existsSync
ExistsSync(p) ==
    IF IsDirectory(p)
    THEN \E f \in Files : f.dir = OnDisk(p).dir
    ELSE OnDisk(p) \in Files

\* getFilesFromDirRecur(dir, "jar"): the archives below dir, in a fixed order
GetFilesFromDirRecur(p) ==
    LET bases == SelectSeq(BaseOrder, LAMBDA b : Path(TRUE, p.dir, b) \in Files)
    IN [i \in 1..Len(bases) |-> Path(TRUE, p.dir, bases[i])]

\* the flatMap callback: one declared path to its archives, or a failure
ResolveOne(originalPath, root) ==
    LET resolvedPath == IF root # NoRoot /\ ~IsAbsolute(originalPath)
                        THEN PathResolve(root, originalPath)
                        ELSE originalPath
    IN IF ~ExistsSync(resolvedPath)
       THEN [paths |-> <<>>, failed |-> <<originalPath>>]
       ELSE [paths |-> IF IsDirectory(resolvedPath)
                       THEN GetFilesFromDirRecur(resolvedPath)
                       ELSE <<resolvedPath>>,
             failed |-> <<>>]

RECURSIVE FlatMapResolve(_, _)
FlatMapResolve(jarPaths, root) ==
    IF jarPaths = <<>> THEN [paths |-> <<>>, failed |-> <<>>]
    ELSE LET one == ResolveOne(Head(jarPaths), root)
             rest == FlatMapResolve(Tail(jarPaths), root)
         IN [paths |-> one.paths \o rest.paths, failed |-> one.failed \o rest.failed]

\* the filter callback with visitedJarPaths: the first path of each basename
FilterVisited(paths) ==
    LET keep == {i \in 1..Len(paths) :
                    \A k \in 1..(i - 1) : Basename(paths[k]) # Basename(paths[i])}
        F[i \in 0..Len(paths)] ==
            IF i = 0 THEN <<>>
            ELSE IF i \in keep THEN Append(F[i - 1], paths[i]) ELSE F[i - 1]
    IN F[Len(paths)]

\* AddLibraryHandler.resolveJarPathsFromSettings: no cache
LibResolveJarPathsFromSettings(jarPaths, resolveFailedPaths, root) ==
    LET flat == FlatMapResolve(jarPaths, root)
    IN [returned |-> FilterVisited(flat.paths),
        failed |-> resolveFailedPaths \o flat.failed]

Undefined == [defined |-> FALSE, value |-> <<>>]

Defined(v) == [defined |-> TRUE, value |-> v]

\* VDMJExtensionsHandler.resolveJarPathsFromSettings: `if (this.jarCache)` is
\* true of every array, the empty one included
ResolveJarPathsFromSettings(cache, jarPaths, resolveFailedPaths, root) ==
    IF cache.defined
    THEN [returned |-> cache.value, failed |-> resolveFailedPaths, cache |-> cache]
    ELSE LET flat == FlatMapResolve(jarPaths, root)
             resolvedJarPaths == FilterVisited(flat.paths)
         IN [returned |-> resolvedJarPaths,
             failed |-> resolveFailedPaths \o flat.failed,
             cache |-> Defined(resolvedJarPaths)]

\* length differs, or some folder-scope element is not found at workspace scope
SettingsDiffer(fs, uws) ==
    \/ Len(fs) # Len(uws)
    \/ ~ \A i \in 1..Len(fs) : \E j \in 1..Len(uws) : uws[j] = fs[i]

\* every workspace/user-scope path, whatever the folder-scope list holds
KeepExisting(uwsPaths, jarPathsFromSettings) == uwsPaths

\* the workspace/user-scope paths whose basename the folder-scope list lacks
FilterExisting(uwsPaths, jarPathsFromSettings) ==
    SelectSeq(uwsPaths,
              LAMBDA u : ~ \E i \in 1..Len(jarPathsFromSettings) :
                              Basename(jarPathsFromSettings[i]) = Basename(u))

UserSource(jarPath) == [type |-> "user", jarPath |-> jarPath]

NoPass == [handler |-> "none", folder |-> "none", repeated |-> FALSE,
           calls |-> <<>>, result |-> <<>>, failed |-> <<>>]

PathInit ==
    /\ \E n1 \in 0..MaxDeclared : \E n2 \in 0..(MaxDeclared - n1) :
          folderSettings \in {[f \in Folders |-> IF f = "f1" THEN a ELSE b] :
                                 a \in SettingLists(n1), b \in SettingLists(n2)}
    /\ \E n \in 0..MaxDeclared :
          /\ Len(folderSettings["f1"]) + Len(folderSettings["f2"]) + n <= MaxDeclared
          /\ userOrWorkspaceSettings \in SettingLists(n)
    /\ jarCache = Undefined
    /\ lastPass = NoPass

PathIdle ==
    /\ folderSettings = [f \in Folders |-> <<>>]
    /\ userOrWorkspaceSettings = <<>>
    /\ jarCache = Undefined
    /\ lastPass = NoPass

(***************************************************************************)
(* Assembly of the source list: getAll...Sources                           *)
(***************************************************************************)
Kinds == {"library", "plugin", "annotation"}

\* the entry filterExtensionSources tests for
MetaFileTest(k) ==
    IF k = "library" THEN "META-INF/library.json"
    ELSE IF k = "plugin" THEN "META-INF/plugin.json"
    ELSE "META-INF/annotations.json"

\* the archives of the user's search paths, of the installed host
\* extensions, and of the included folder
UserPaths == {Path(TRUE, "u", "a.jar"), Path(TRUE, "u", "b.jar")}

HostPaths == {Path(TRUE, "h", "a.jar"), Path(TRUE, "h", "b.jar")}

IncludedPaths == {Path(TRUE, "i", "a.jar"), Path(TRUE, "i", "b.jar")}

\* the lists over a set of paths, without repetitions
ListsOf(S) == {l \in UNION {[1..n -> S] : n \in 0..Cardinality(S)} :
                  \A i, k \in 1..Len(l) : i # k => l[i] # l[k]}

\* the entry get...InfoFromSource reads
MetaFileRead(k) ==
    IF k = "library" THEN "META-INF/library.json"
    ELSE IF k = "plugin" THEN "META-INF/plugin.json"
    ELSE "META-INF/annotation.json"

\* an archive that cannot be opened, one without metadata entries, one with
\* the entry of every kind that is tested for, and one with the entry of
\* every kind that is read
JarFileStates ==
    {[opens |-> FALSE, entries |-> {}],
     [opens |-> TRUE, entries |-> {}],
     [opens |-> TRUE, entries |-> {MetaFileTest(k) : k \in Kinds}],
     [opens |-> TRUE, entries |-> {MetaFileRead(k) : k \in Kinds}]}

\* jarFile.fileExists(entry)
FileExists(jar, entry) == entry \in jar.entries

BuiltinSource(jarPath) == [type |-> "builtin", jarPath |-> jarPath]

SourceBasenames(srcs) == {Basename(srcs[i].jarPath) : i \in 1..Len(srcs)}

\* filterExtensionSources: the sources that open and hold the entry
FilterExtensionSources(extSources, metaFileTest) ==
    SelectSeq(extSources,
              LAMBDA s : /\ jarFiles[s.jarPath].opens
                         /\ FileExists(jarFiles[s.jarPath], metaFileTest))

\* the paths whose basename no source of the given list has
NotOverwritten(jarPaths, userDefinedExtensionSources) ==
    SelectSeq(jarPaths, LAMBDA ijp : Basename(ijp) \notin SourceBasenames(userDefinedExtensionSources))

\* getDefaultExtensionSources
GetDefaultExtensionSources(jarPaths, userDefinedExtensionSources) ==
    LET kept == IF Len(userDefinedExtensionSources) > 0
                THEN NotOverwritten(jarPaths, userDefinedExtensionSources)
                ELSE jarPaths
    IN [i \in 1..Len(kept) |-> BuiltinSource(kept[i])]

\* getExtensionExtensionSources
GetExtensionExtensionSources(userDefinedExtensionSources) ==
    LET kept == NotOverwritten(enhancementPaths, userDefinedExtensionSources)
    IN [i \in 1..Len(kept) |-> UserSource(kept[i])]

\* getUser...Sources, getExtension...Sources and getDefault...Sources of a
\* kind, as getAll...Sources chains them
StagesOf(k) ==
    LET user == FilterExtensionSources(userExtensionSources, MetaFileTest(k))
        extension == FilterExtensionSources(GetExtensionExtensionSources(user),
                                            MetaFileTest(k))
        default == GetDefaultExtensionSources(includedJarsPaths, extension)
    IN [user |-> user, extension |-> extension, default |-> default]

\* return userLibraries.concat(defaultLibraries)
GetAllLibrarySources == StagesOf("library").user \o StagesOf("library").default

\* return userPlugins.concat(defaultPlugins, extensionPlugins)
GetAllPluginSources ==
    StagesOf("plugin").user \o StagesOf("plugin").default \o StagesOf("plugin").extension

\* return userAnnotations.concat(defaultAnnotations, extensionAnnotations)
GetAllAnnotationSources ==
    StagesOf("annotation").user \o StagesOf("annotation").default
        \o StagesOf("annotation").extension

NoSources == [kind |-> "none", result |-> <<>>]

SrcInit ==
    /\ userExtensionSources \in
         {[i \in 1..Len(l) |-> UserSource(l[i])] : l \in ListsOf(UserPaths)}
    /\ enhancementPaths \in ListsOf(HostPaths)
    /\ includedJarsPaths \in {<<>>, <<Path(TRUE, "i", "a.jar")>>,
                              <<Path(TRUE, "i", "a.jar"), Path(TRUE, "i", "b.jar")>>}
    /\ jarFiles \in [UserPaths \cup HostPaths \cup IncludedPaths -> JarFileStates]
    /\ \A p \in UserPaths \cup HostPaths \cup IncludedPaths :
          Basename(p) = "b.jar" => jarFiles[p].entries # {}
    /\ allSources = NoSources

SrcIdle ==
    /\ userExtensionSources = <<>>
    /\ enhancementPaths = <<>>
    /\ includedJarsPaths = <<>>
    /\ jarFiles = [p \in UserPaths \cup HostPaths \cup IncludedPaths |->
                      [opens |-> TRUE, entries |-> {}]]
    /\ allSources = NoSources

(***************************************************************************)
(* Enablement of plugins and annotations: getPluginState,                  *)
(* getAnnotationState, the selection prompt, areStatesEqual and            *)
(* getClasspathAdditions                                                   *)
(***************************************************************************)
ExtKinds == {"plugin", "annotation"}

\* const DEFAULT_ENABLED_PLUGINS = ["quickcheck", "uml"]
DEFAULT_ENABLED_PLUGINS == <<"quickcheck", "uml">>

\* names a plugin.json / annotation.json may declare
ExtNames == {"quickcheck", "P1", "P2"}

\* Object.entries of the stored setting lists its keys in this order
ExtNameOrder == <<"quickcheck", "P1", "P2">>

\* most entries of a discovered catalog
MaxCatalog == 3

SourceTypes == {"builtin", "user"}

ExtJar(n) ==
    CASE n = "quickcheck" -> "quickcheck.jar"
      [] n = "P1" -> "p1.jar"
      [] OTHER -> "p2.jar"

\* SourcedPluginMetadata / SourcedAnnotationMetadata
ExtInfo(n, t, d) ==
    [name |-> n, description |-> d, source |-> [type |-> t, jarPath |-> ExtJar(n)]]

NameLists ==
    {l \in UNION {[1..k -> ExtNames] : k \in 0..MaxCatalog} :
        \A i, j \in 1..Len(l) : i # j => l[i] # l[j]}

\* the catalogs getAllPluginInfo / getAllAnnotationInfo can return over a list
\* of names: key = metadata name, one archive per name
CatalogsOver(l, descs) ==
    {[i \in 1..Len(l) |-> [key |-> l[i], val |-> ExtInfo(l[i], ts[i], ds[i])]] :
        ts \in [1..Len(l) -> SourceTypes], ds \in [1..Len(l) -> descs]}

\* Record<string, boolean>: the `enabled` setting
EnabledConfigurations == UNION {[K -> BOOLEAN] : K \in SUBSET ExtNames}

\* Object.entries(enabledPluginsConfiguration)
ObjectEntries(cfg) ==
    LET keys == SelectSeq(ExtNameOrder, LAMBDA n : n \in DOMAIN cfg)
    IN [i \in 1..Len(keys) |-> [key |-> keys[i], val |-> cfg[keys[i]]]]

GetEnabledPlugins(cfg) ==
    LET es == SelectSeq(ObjectEntries(cfg), LAMBDA e : e.val)
    IN [i \in 1..Len(es) |-> es[i].key]

GetDisabledPlugins(cfg) ==
    LET es == SelectSeq(ObjectEntries(cfg), LAMBDA e : ~e.val)
    IN [i \in 1..Len(es) |-> es[i].key]

GetEnabledAnnotations(cfg) ==
    LET es == SelectSeq(ObjectEntries(cfg), LAMBDA e : e.val)
    IN [i \in 1..Len(es) |-> es[i].key]

\* { ...info, enabled: e }
WithEnabled(info, e) ==
    [name |-> info.name, description |-> info.description,
     source |-> info.source, enabled |-> e]

\* a default-enabled plugin that stays enabled although it is stored as disabled
PluginEnabledIgnoringDisabled(pluginName, enabledPlugins, disabledPlugins) ==
    \/ pluginName \in enabledPlugins
    \/ pluginName \in Range(DEFAULT_ENABLED_PLUGINS)

\* the enabled flag getPluginState gives a discovered name
PluginEnabled(pluginName, enabledPlugins, disabledPlugins) ==
    \/ pluginName \in enabledPlugins
    \/ /\ pluginName \in Range(DEFAULT_ENABLED_PLUGINS)
       /\ pluginName \notin disabledPlugins

RECURSIVE SetEach(_, _, _)
\* for (const [name, info] of entries) state.set(name, {...info, enabled: flag[name]})
SetEach(state, entries, flag) ==
    IF entries = <<>> THEN state
    ELSE SetEach(MapSet(state, entries[1].key,
                        WithEnabled(entries[1].val, flag[entries[1].key])),
                 Tail(entries), flag)

GetPluginState(discoveredPlugins, cfg) ==
    LET enabledPlugins == Range(GetEnabledPlugins(cfg))
        disabledPlugins == Range(GetDisabledPlugins(cfg))
    IN SetEach(<<>>, discoveredPlugins,
               [n \in MapKeys(discoveredPlugins) |->
                   PluginEnabled(n, enabledPlugins, disabledPlugins)])

GetAnnotationState(discoveredAnnotations, cfg) ==
    LET enabledAnnotations == Range(GetEnabledAnnotations(cfg))
    IN SetEach(<<>>, discoveredAnnotations,
               [n \in MapKeys(discoveredAnnotations) |-> n \in enabledAnnotations])

GetState(k, catalog, cfg) ==
    IF k = "plugin" THEN GetPluginState(catalog, cfg)
    ELSE GetAnnotationState(catalog, cfg)

NamesOfType(state, t) ==
    LET vs == SelectSeq(MapValues(state), LAMBDA v : v.source.type = t)
    IN [i \in 1..Len(vs) |-> vs[i].name]

\* the items of the quick pick, in display order: the plugin dialog lists
\* built-in then user items, the annotation dialog only user items
QuickPickItems(k, currentState) ==
    IF k = "plugin"
    THEN NamesOfType(currentState, "builtin") \o NamesOfType(currentState, "user")
    ELSE NamesOfType(currentState, "user")

\* what showQuickPick can resolve to: undefined, or the picked items in
\* display order
QuickPickAnswers(k, currentState) ==
    LET items == QuickPickItems(k, currentState)
    IN {Undefined} \cup
       {Defined(SelectSeq(items, LAMBDA n : n \in S)) : S \in SUBSET Range(items)}

RECURSIVE EnableSelected(_, _)
\* for (const item of selected) newState.get(item.metadata.name).enabled = true
EnableSelected(state, selected) ==
    IF selected = <<>> THEN state
    ELSE EnableSelected(MapSet(state, selected[1],
                               WithEnabled(MapGet(state, selected[1]), TRUE)),
                        Tail(selected))

\* a prompt that only switches the selected entries on
ApplySelectionIncremental(currentState, selected) ==
    EnableSelected(currentState, selected)

\* the state the prompt builds from a confirmed selection: every entry is
\* replaced by a disabled copy, then the selected ones are enabled
ApplySelection(currentState, selected) ==
    EnableSelected(SetEach(currentState, currentState,
                           [n \in MapKeys(currentState) |-> FALSE]), selected)

PromptUserManagePlugins(currentState, answer) ==
    IF ~answer.defined THEN Undefined
    ELSE Defined(ApplySelection(currentState, answer.value))

PromptUserManageAnnotations(currentState, answer) ==
    IF ~answer.defined THEN Undefined
    ELSE Defined(ApplySelection(currentState, answer.value))

PromptUser(k, currentState, answer) ==
    IF k = "plugin" THEN PromptUserManagePlugins(currentState, answer)
    ELSE PromptUserManageAnnotations(currentState, answer)

\* a comparison of whole entries instead of the enabled flags
AreStatesIdentical(stateA, stateB) ==
    \A i \in 1..Len(stateA) : stateA[i].val = MapGet(stateB, stateA[i].key)

AreStatesEqual(stateA, stateB) ==
    \A i \in 1..Len(stateA) :
        stateA[i].val.enabled = MapGet(stateB, stateA[i].key).enabled

\* a handler that commits every confirmed selection
CommitsConfirmed(initial, updated) == updated.defined

\* the handler commits only a confirmed selection that changed some flag
CommitsChange(initial, updated) ==
    updated.defined /\ ~AreStatesEqual(initial, updated.value)

\* a written map that lists only the enabled names
NewEnabledConfigOnlyEnabled(state) ==
    [n \in {m \in MapKeys(state) : MapGet(state, m).enabled} |-> TRUE]

\* newPluginEnabledConfig[name] = info.enabled for every entry of the state
NewEnabledConfig(state) == [n \in MapKeys(state) |-> MapGet(state, n).enabled]

\* a projection that forgets the filter
ClasspathOfAll(currentState) ==
    [i \in 1..Len(currentState) |-> currentState[i].val.source.jarPath]

\* Array.from(state.values()).filter(enabled).map(source.jarPath)
ClasspathOf(currentState) ==
    LET en == SelectSeq(MapValues(currentState), LAMBDA v : v.enabled)
    IN [i \in 1..Len(en) |-> en[i].source.jarPath]

NoRun == [answer |-> Undefined, equal |-> FALSE, wrote |-> FALSE, finished |-> FALSE]

NoCompare == [a |-> <<>>, b |-> <<>>, sameSettings |-> FALSE, called |-> FALSE, result |-> FALSE]

EnableInit ==
    /\ extKind \in ExtKinds
    /\ \E l \in NameLists : discovered \in CatalogsOver(l, {"d1"})
    /\ enabledConfiguration \in EnabledConfigurations
    /\ managePc = "idle"
    /\ initialState = <<>>
    /\ updatedState = Undefined
    /\ manageRun = NoRun
    /\ classpathAdditions = Undefined
    /\ compared = NoCompare

EnableIdle ==
    /\ extKind = "plugin"
    /\ discovered = <<>>
    /\ enabledConfiguration = <<>>
    /\ managePc = "idle"
    /\ initialState = <<>>
    /\ updatedState = Undefined
    /\ manageRun = NoRun
    /\ classpathAdditions = Undefined
    /\ compared = NoCompare

(***************************************************************************)
(* The dialog step on objects: a state is a Map from names to references,  *)
(* `{...info, enabled}` makes a new object, `.enabled = true` changes one. *)
(***************************************************************************)
\* the entries a Map of references stands for
Deref(heap, refs) == [i \in 1..Len(refs) |-> [key |-> refs[i].key, val |-> heap[refs[i].val]]]

RECURSIVE DisabledInPlace(_, _, _)
\* a loop that switches the entries off where they are
DisabledInPlace(heap, newState, entries) ==
    IF entries = <<>> THEN [heap |-> heap, state |-> newState]
    ELSE DisabledInPlace([heap EXCEPT ![MapGet(newState, entries[1].key)].enabled = FALSE],
                         newState, Tail(entries))

RECURSIVE DisabledCopies(_, _, _)
\* for (const [name, info] of currentState) newState.set(name, {...info, enabled: false})
DisabledCopies(heap, newState, entries) ==
    IF entries = <<>> THEN [heap |-> heap, state |-> newState]
    ELSE DisabledCopies(Append(heap, WithEnabled(heap[entries[1].val], FALSE)),
                        MapSet(newState, entries[1].key, Len(heap) + 1),
                        Tail(entries))

RECURSIVE EnabledInPlace(_, _, _)
\* for (const item of selected) newState.get(item.metadata.name).enabled = true
EnabledInPlace(heap, newState, selected) ==
    IF selected = <<>> THEN [heap |-> heap, state |-> newState]
    ELSE EnabledInPlace([heap EXCEPT ![MapGet(newState, selected[1])].enabled = TRUE],
                        newState, Tail(selected))

\* promptUserManagePlugins / promptUserManageAnnotations after a confirmed
\* dialog: new Map(currentState), the disabling loop, the enabling loop
PromptOnObjects(heap, currentState, selected) ==
    LET off == DisabledCopies(heap, currentState, currentState)
    IN EnabledInPlace(off.heap, off.state, selected)

NoPrompt == [called |-> FALSE, kind |-> "plugin", currentState |-> <<>>, before |-> <<>>,
             answer |-> Undefined, newState |-> Undefined, equal |-> FALSE]

PromptInit ==
    \E k \in ExtKinds, l \in NameLists, cfg \in EnabledConfigurations :
        \E catalog \in CatalogsOver(l, {"d1"}) :
            LET st == GetState(k, catalog, cfg)
            IN /\ objects = MapValues(st)
               /\ promptCall = [NoPrompt EXCEPT
                      !.kind = k,
                      !.currentState = [i \in 1..Len(st) |-> [key |-> st[i].key, val |-> i]],
                      !.before = [n \in MapKeys(st) |-> MapGet(st, n).enabled]]

PromptIdle == objects = <<>> /\ promptCall = NoPrompt

(***************************************************************************)
(* JarFile: lazy reading of archive entries                                *)
(***************************************************************************)
\* file names an archive's entry table may hold
EntryNames == {"META-INF/library.json", "A.vdmsl", "B.vdmsl"}

\* property names every object literal inherits from Object.prototype
InheritedNames == {"constructor"}

\* paths readFile is asked for
RequestPaths == EntryNames \cup InheritedNames

\* most entries of an archive
MaxEntries == 3

EntryTables ==
    {t \in UNION {[1..k -> EntryNames] : k \in 0..MaxEntries} :
        \A i, j \in 1..Len(t) : i # j => t[i] # t[j]}

\* this._entries[path] on `_entries: EntryMap = {}`: an own property is a
\* visited entry, an inherited one is some member of Object.prototype
CacheLookup(cache, path) ==
    IF path \in DOMAIN cache THEN [kind |-> "entry", index |-> cache[path]]
    ELSE IF path \in InheritedNames THEN [kind |-> "inherited", index |-> 0]
    ELSE [kind |-> "undefined", index |-> 0]

\* this._entries[entry.fileName] = entry
HandleEntry(cache, fileName, index) ==
    [n \in DOMAIN cache \cup {fileName} |-> IF n = fileName THEN index ELSE cache[n]]

\* a readFile without the check for a closed container
NeverClosedGuard(open) == FALSE

\* if (!this._zipFile.isOpen) throw ...
ClosedGuard(open) == ~open

\* handleEntryMatch: entry.fileName === path ends the scan
EntryMatches(fileName, path) == fileName = path

\* a scan that asks for the next entry after a match as well
ReadsNextEntryAlways(matched) == TRUE

\* handleEntryMatch asks for the next entry only when the entry did not match
ReadsNextEntry(matched) == ~matched

\* consumers.buffer(readStream) of an entry: the bytes stored under its name
ReadEntryToBuffer(table, index) == table[index]

NoCall == [path |-> "", pc |-> "none", outcome |-> "pending", data |-> "",
           entry |-> 0, closedAtCall |-> FALSE]

NoClose == [called |-> FALSE, during |-> "none", threw |-> FALSE]

\* the container's close(): a closed container returns at once, an open one
\* gives up its reference on the reader
ReaderRefsAfterClose(open, refs) == IF open THEN refs - 1 ELSE refs

JarFileInit ==
    /\ zipEntries \in EntryTables
    /\ entriesRead = 0
    /\ isOpen = TRUE
    /\ cachedEntries = <<>>
    /\ listeners = {"handleEntry"}
    /\ readEntryPending = FALSE
    /\ readCall = NoCall
    /\ pulled = [i \in DOMAIN zipEntries |-> 0]
    /\ readerRefs = 1
    /\ closeCall = NoClose

JarFileIdle ==
    /\ zipEntries = <<>>
    /\ entriesRead = 0
    /\ isOpen = TRUE
    /\ cachedEntries = <<>>
    /\ listeners = {"handleEntry"}
    /\ readEntryPending = FALSE
    /\ readCall = NoCall
    /\ pulled = <<>>
    /\ readerRefs = 1
    /\ closeCall = NoClose

(***************************************************************************)
(* Adding libraries: addLibFilesToTarget and copyLibFilesToTarget          *)
(***************************************************************************)
\* the archives libraries come from
LibArchives == {"libs.jar", "extra.jar"}

\* the libraries a catalog may hold; X and Y are names no archive declares
AddNames == <<"L", "A">>

\* the `depends` lists a library.json may give a library
AddDepLists == {<<>>, <<"A">>, <<"X">>, <<"X", "A">>, <<"X", "Y">>, <<"L">>}

\* the `files` list of a library
LibFiles(n) ==
    IF n = "L" THEN <<"L1.vdmsl", "L2.vdmsl", "L3.vdmsl">> ELSE <<"A1.vdmsl">>

AllLibFiles == {"L1.vdmsl", "L2.vdmsl", "L3.vdmsl", "A1.vdmsl"}

\* SourcedLibraryMetadata with its files
AddLibInfo(n, deps, jar) ==
    [name |-> n, depends |-> deps, files |-> LibFiles(n),
     source |-> [type |-> "builtin", jarPath |-> jar]]

\* what promptUserToSelectLibraries can hand on: the picked entries, one or more
Selections(catalog) ==
    {l \in UNION {[1..k -> MapKeys(catalog)] : k \in 1..Len(catalog)} :
        \A i, j \in 1..Len(l) : i # j => l[i] # l[j]}

\* libsFromJar = importMap.get(source) ?? []; push; set
PushImport(importMap, depLibInfo) ==
    MapSet(importMap, depLibInfo.source,
           Append(IF MapHas(importMap, depLibInfo.source)
                  THEN MapGet(importMap, depLibInfo.source) ELSE <<>>,
                  depLibInfo))

RECURSIVE PushImports(_, _)
PushImports(importMap, libInfos) ==
    IF libInfos = <<>> THEN importMap
    ELSE PushImports(PushImport(importMap, libInfos[1]), Tail(libInfos))

NoImports == [thrown |-> FALSE, importMap |-> <<>>, warnings |-> <<>>]

RECURSIVE BuildImportMap(_, _, _)
\* selectedLibs.forEach: resolve, map the library and its resolved
\* dependencies to their archives, warn of unresolved names; a RangeError of
\* the resolver ends the loop
BuildImportMap(selectedLibs, catalog, acc) ==
    IF selectedLibs = <<>> THEN acc
    ELSE LET libInfo == MapGet(catalog, selectedLibs[1])
             resolutionRes == ResolveLibraryDependencies(libInfo, catalog, MaxCallDepth)
         IN IF resolutionRes.overflow
            THEN [thrown |-> TRUE, importMap |-> <<>>, warnings |-> acc.warnings]
            ELSE BuildImportMap(Tail(selectedLibs), catalog,
                    [thrown |-> FALSE,
                     importMap |-> PushImports(acc.importMap,
                                      <<libInfo>> \o MapValues(resolutionRes.resolved)),
                     warnings |-> IF Len(resolutionRes.unresolved) > 0
                                  THEN Append(acc.warnings,
                                              [library |-> libInfo.name,
                                               names |-> resolutionRes.unresolved])
                                  ELSE acc.warnings])

RECURSIVE GetLibFileNames(_)
\* the files of the libraries of one archive, each once, in first-seen order
GetLibFileNames(libInfos) ==
    IF libInfos = <<>> THEN <<>>
    ELSE LET before == GetLibFileNames(SubSeq(libInfos, 1, Len(libInfos) - 1))
         IN before \o SelectSeq(libInfos[Len(libInfos)].files,
                                LAMBDA f : f \notin Range(before))

\* a copy loop that gives up at the first file the archive lacks
WrittenUntilMissing(libFileNames, held) ==
    LET firstMissing == IF \A i \in 1..Len(libFileNames) : libFileNames[i] \in held
                        THEN Len(libFileNames) + 1
                        ELSE CHOOSE i \in 1..Len(libFileNames) :
                                /\ libFileNames[i] \notin held
                                /\ \A k \in 1..(i - 1) : libFileNames[k] \in held
    IN SubSeq(libFileNames, 1, firstMissing - 1)

\* the inner loop: a file the archive lacks is noted and skipped, every
\* other file is handed to copySingleFileToTarget
WrittenOfArchive(libFileNames, held) == SelectSeq(libFileNames, LAMBDA f : f \in held)

MissingOfArchive(libFileNames, held) == SelectSeq(libFileNames, LAMBDA f : f \notin held)

RECURSIVE CopyLibFilesToTarget(_, _, _, _)
\* the outer loop over the import map, at entry i, with the files written so far
CopyLibFilesToTarget(importMap, held, i, written) ==
    IF i > Len(importMap) THEN [threw |-> FALSE, failedAt |-> 0, written |-> written]
    ELSE LET libSource == importMap[i].key
             libFileNames == GetLibFileNames(importMap[i].val)
             here == WrittenOfArchive(libFileNames, held[libSource.jarPath])
             missingFiles == MissingOfArchive(libFileNames, held[libSource.jarPath])
             now == written \o [k \in 1..Len(here) |->
                                   [jarPath |-> libSource.jarPath, file |-> here[k]]]
         IN IF Len(missingFiles) # 0
            THEN [threw |-> TRUE, failedAt |-> i, written |-> now]
            ELSE CopyLibFilesToTarget(importMap, held, i + 1, now)

NoCopy == [threw |-> FALSE, failedAt |-> 0, written |-> <<>>]

NoAdd == [selected |-> <<>>, thrown |-> FALSE, importMap |-> <<>>, warnings |-> <<>>,
          copied |-> FALSE, copy |-> NoCopy]

AddInit ==
    /\ \E depsL, depsA \in AddDepLists, jarL, jarA \in LibArchives :
          discoveredLibraries \in
             {<<[key |-> "L", val |-> AddLibInfo("L", depsL, jarL)]>>,
              <<[key |-> "L", val |-> AddLibInfo("L", depsL, jarL)],
                [key |-> "A", val |-> AddLibInfo("A", depsA, jarA)]>>}
    /\ \E missing \in SUBSET AllLibFiles :
          archiveFiles = [a \in LibArchives |-> AllLibFiles \ missing]
    /\ addRun = NoAdd

AddIdle ==
    /\ discoveredLibraries = <<>>
    /\ archiveFiles = [a \in LibArchives |-> {}]
    /\ addRun = NoAdd

(***************************************************************************)
(* JarFile: two readFile calls on one handle.  The container reads one     *)
(* central-directory record per readEntry(): the read starts at the cursor *)
(* the container has when it is asked and moves the cursor when it is done.*)
(***************************************************************************)
ScanCalls == {1, 2}

NoScan == [pc |-> "none", path |-> "", outcome |-> "pending", data |-> ""]

\* what a read that started at a cursor another read has moved can give
RaceOutcomes == {"error", "garbage"}

\* a container that would queue its reads, each starting where the one
\* before it ended
ReadEntrySerialised(c) ==
    LET asked == Len(SelectSeq(c.reads, LAMBDA r : r.kind = "entry"))
    IN IF c.entriesRead + asked >= c.entryCount
       THEN [c EXCEPT !.reads = Append(@, [kind |-> "end", at |-> 0])]
       ELSE [c EXCEPT !.reads = Append(@, [kind |-> "entry", at |-> c.cursor + asked])]

\* this._zipFile.readEntry(): at the end of the directory "end" is scheduled,
\* after an error nothing is done, otherwise a read starts at the cursor
ReadEntry(c) ==
    IF c.entriesRead = c.entryCount
    THEN [c EXCEPT !.reads = Append(@, [kind |-> "end", at |-> 0])]
    ELSE IF c.emittedError THEN c
    ELSE [c EXCEPT !.reads = Append(@, [kind |-> "entry", at |-> c.cursor])]

RECURSIVE ReadEntryTimes(_, _)
ReadEntryTimes(c, n) == IF n = 0 THEN c ELSE ReadEntryTimes(ReadEntry(c), n - 1)

\* the calls whose handleEntryMatch / handleEnd listeners are registered
Scanning(calls) == {k \in ScanCalls : calls[k].pc = "scanning"}

\* handleEntryMatch of every scanning call on an emitted entry
OnEntry(calls, fileName) ==
    [k \in ScanCalls |->
        IF calls[k].pc = "scanning" /\ EntryMatches(fileName, calls[k].path)
        THEN [calls[k] EXCEPT !.pc = "streaming"]
        ELSE calls[k]]

\* handleEnd of every scanning call
OnEnd(calls) ==
    [k \in ScanCalls |->
        IF calls[k].pc = "scanning"
        THEN [calls[k] EXCEPT !.pc = "settled", !.outcome = "undefined"]
        ELSE calls[k]]

PairInit ==
    /\ pairEntries \in EntryTables
    /\ central = [cursor |-> 0, entriesRead |-> 0, entryCount |-> Len(pairEntries),
                  reads |-> <<>>, misaligned |-> FALSE, emittedError |-> FALSE]
    /\ scanCache = {}
    /\ scans = [calls |-> [k \in ScanCalls |-> NoScan], together |-> FALSE]

PairIdle ==
    /\ pairEntries = <<>>
    /\ central = [cursor |-> 0, entriesRead |-> 0, entryCount |-> 0,
                  reads |-> <<>>, misaligned |-> FALSE, emittedError |-> FALSE]
    /\ scanCache = {}
    /\ scans = [calls |-> [k \in ScanCalls |-> NoScan], together |-> FALSE]

(***************************************************************************)
(* ServerFactory.launchServer: the class path.  A string is the list of    *)
(* its pieces; path.delimiter and path.sep are pieces of their own.        *)
(***************************************************************************)
Delimiter == ":"

Sep == "/"

\* the class path additions a user may have set: a jar, a folder with and
\* without wildcard, the same for paths that are not on the disk, and a name
\* that only ends in a star
ClassPathSettings ==
    {<<"x.jar">>, <<"lib", Sep, "*">>, <<"gone.jar">>, <<"gone", Sep, "*">>, <<"lib*">>}

ExistingPaths == {<<"x.jar">>, <<"lib">>}

MaxAdditions == 2

JarPathVdmj == <<"vdmj">>

JarPathVdmjHp == <<"vdmj_hp">>

\* cp.endsWith(path.sep + "*") ? cp.substr(0, cp.length - 2) : cp
PathToCheck(cp) ==
    IF Len(cp) >= 2 /\ cp[Len(cp) - 1] = Sep /\ cp[Len(cp)] = "*"
    THEN SubSeq(cp, 1, Len(cp) - 2)
    ELSE cp

\* a loop that adds every configured entry
AllUserAdditions(cps, existing) == cps

\* the configured entries whose path exists
UserAdditions(cps, existing) == SelectSeq(cps, LAMBDA cp : PathToCheck(cp) \in existing)

RECURSIVE Joined(_)
\* forEach(e => classPath += e + path.delimiter)
Joined(elements) ==
    IF elements = <<>> THEN <<>>
    ELSE elements[1] \o <<Delimiter>> \o Joined(Tail(elements))

\* path.resolve(highPrecision ? _jarPathVdmjHp : _jarPathVdmj, "*")
VdmjFolder(highPrecision) ==
    (IF highPrecision THEN JarPathVdmjHp ELSE JarPathVdmj) \o <<Sep, "*">>

JarPathsOf(srcs) == [i \in 1..Len(srcs) |-> <<srcs[i].jarPath>>]

PathsOf(jarPaths) == [i \in 1..Len(jarPaths) |-> <<jarPaths[i]>>]

\* the string launchServer builds
ConstructClassPath(env) ==
    Joined(JarPathsOf(env.librarySources))
        \o Joined(PathsOf(ClasspathOf(env.pluginState)))
        \o Joined(PathsOf(ClasspathOf(env.annotationState)))
        \o Joined(UserAdditions(env.classPathAdditions, env.existing))
        \o VdmjFolder(env.highPrecision) \o <<Delimiter>>

LibrarySourceLists ==
    {<<>>, <<[type |-> "user", jarPath |-> "u.jar"]>>,
     <<[type |-> "user", jarPath |-> "u.jar"], [type |-> "builtin", jarPath |-> "i.jar"]>>}

AdditionLists ==
    {l \in UNION {[1..n -> ClassPathSettings] : n \in 0..MaxAdditions} :
        \A i, j \in 1..Len(l) : i # j => l[i] # l[j]}

LaunchInit ==
    /\ \E libs \in LibrarySourceLists, adds \in AdditionLists, hp \in BOOLEAN,
          pcfg \in [{"quickcheck", "P1"} -> BOOLEAN], acfg \in [{"P2"} -> BOOLEAN],
          pl \in {<<>>, <<"quickcheck", "P1">>, <<"P1">>}, al \in {<<>>, <<"P2">>} :
          launchEnv = [librarySources |-> libs,
                       pluginState |-> GetPluginState(
                           [i \in 1..Len(pl) |-> [key |-> pl[i], val |-> ExtInfo(pl[i], "user", "d1")]],
                           pcfg),
                       annotationState |-> GetAnnotationState(
                           [i \in 1..Len(al) |-> [key |-> al[i], val |-> ExtInfo(al[i], "user", "d1")]],
                           acfg),
                       classPathAdditions |-> adds,
                       existing |-> ExistingPaths,
                       highPrecision |-> hp]
    /\ classPath = Undefined

LaunchIdle ==
    /\ launchEnv = [librarySources |-> <<>>, pluginState |-> <<>>, annotationState |-> <<>>,
                    classPathAdditions |-> <<>>, existing |-> {}, highPrecision |-> FALSE]
    /\ classPath = Undefined

(***************************************************************************)
(* ProofObligationPanel: the webview panel, the onReady promise and the    *)
(* messages posted to the webview.  A block of synchronous code and the    *)
(* promise callbacks it makes runnable are one step.                       *)
(***************************************************************************)
\* most panels created, pog runs started and QuickCheck runs started
MaxPanels == 2

MaxPogRuns == 2

MaxQcRuns == 1

\* most onUpdate(false) calls
MaxUpdates == 2

PogCommands == {"newPOs", "posValid", "posInvalid"}

\* new Promise((resolve, reject) => ...) with its OnReady callbacks
NewPromise == [resolved |-> FALSE, thens |-> <<>>]

\* this._panel.webview.postMessage(...): what is attempted, on which panel
PostTo(p, ready, command) ==
    [command |-> command, panel |-> p, ready |-> (p \in ready)]

\* the callbacks that run post their messages to whatever _panel is then
PostAll(log, p, ready, commands) ==
    log \cup {PostTo(p, ready, commands[i]) : i \in 1..Len(commands)}

\* this.onReady.then(() => post(command)): a pending promise keeps the
\* callback, a resolved one makes it runnable
Then(ps, id, command) ==
    IF ps[id].resolved THEN ps
    ELSE [ps EXCEPT ![id].thens = Append(@, command)]

Runnable(ps, id, command) == IF ps[id].resolved THEN <<command>> ELSE <<>>

PogInit ==
    /\ panel = 0
    /\ panelCount = 0
    /\ readySent = {}
    /\ onReady = 1
    /\ promises = <<NewPromise>>
    /\ pogAwaiting = 0
    /\ qcAwaiting = 0
    /\ started = [pog |-> 0, qc |-> 0, updates |-> 0]
    /\ closed = FALSE
    /\ posted = {}

PogIdle == PogInit

(***************************************************************************)
(* Discovery passes: getAllLibInfo, getAllPluginInfo, getAllAnnotationInfo *)
(***************************************************************************)
Archives == {"j1", "j2"}

\* names a metadata entry may declare
MetaNames == {"X", "Y"}

Dialects == {"vdmsl", "vdmpp"}

\* most library records a library.json holds
MaxRecs == 2

\* discovery passes in flight at the same time
Passes == {"p1", "p2"}

\* ExtensionSource
Source(a) == [type |-> IF a = "j1" THEN "user" ELSE "builtin", jarPath |-> a]

\* a library.json record, listed under the key `dialect`
LibRecords == [name : MetaNames, dialect : Dialects]

\* a plugin.json / annotation.json; precision "undefined" when omitted
ExtRecords == [name : MetaNames,
               dialects : {{"vdmsl"}, {"vdmsl", "vdmpp"}},
               precision : {"undefined", "standard", "high"}]

RecLists(k) ==
    IF k = "library"
    THEN UNION {[1..n -> LibRecords] : n \in 0..MaxRecs}
    ELSE [1..1 -> ExtRecords]

\* every record of an archive carries its own description
Described(a, recs) ==
    [i \in 1..Len(recs) |-> [description |-> <<a, i>>] @@ recs[i]]

JarContents(k, a) ==
    {[status |-> "corrupt", recs |-> <<>>], [status |-> "nometa", recs |-> <<>>]}
    \cup {[status |-> "ok", recs |-> Described(a, r)] : r \in RecLists(k)}

\* the dialect a pass may ask for; a library.json treats its dialect keys
\* alike, so the library passes ask for one of them
DialectArgs(k) == IF k = "library" THEN {"vdmsl"} ELSE Dialects

PrecisionArgs(k) ==
    IF k = "library" THEN {"standard"}
    ELSE IF k = "plugin" THEN {"standard", "high"}
    ELSE {"standard", "high", "hp"}

\* if (!info["precision"]) info["precision"] = "standard"
DefaultPrecision(prec) == IF prec = "undefined" THEN "standard" ELSE prec

\* getLibInfoFromSource: (jsonData[dialect] ?? []).map(lib => ({...lib, source}))
LibInfosFromSource(src, d) ==
    LET recs == SelectSeq(jarMeta[src.jarPath].recs, LAMBDA r : r.dialect = d)
    IN [i \in 1..Len(recs) |->
            [name |-> recs[i].name, description |-> recs[i].description, source |-> src]]

\* getPluginInfoFromSource / getAnnotationInfoFromSource, metadata entry present
ExtInfoFromSource(src) ==
    LET rec == jarMeta[src.jarPath].recs[1]
    IN [name |-> rec.name, description |-> rec.description, dialects |-> rec.dialects,
        precision |-> DefaultPrecision(rec.precision), source |-> src]

\* info.dialects.includes(dialect) && info.precision === precision
Retained(info, d, prec) == d \in info.dialects /\ info.precision = prec

\* sources = map.get(info.name) ?? []; sources.push(info); map.set(info.name, sources)
PushCandidate(map, info) ==
    MapSet(map, info.name,
           Append(IF MapHas(map, info.name) THEN MapGet(map, info.name) ELSE <<>>, info))

RECURSIVE PushCandidates(_, _)
PushCandidates(map, infos) ==
    IF infos = <<>> THEN map
    ELSE PushCandidates(PushCandidate(map, Head(infos)), Tail(infos))

\* the candidate a name's list contributes to the duplicates report, and its key
DuplicateToReport(infos) == infos[1]

\* every candidate but the first, each under its own source
RECURSIVE ReportLosers(_, _)
ReportLosers(dups, losers) ==
    IF losers = <<>> THEN dups
    ELSE LET l == Head(losers)
         IN ReportLosers(MapSet(dups, l.source,
                                Append(IF MapHas(dups, l.source)
                                       THEN MapGet(dups, l.source) ELSE <<>>, l)),
                         Tail(losers))

RECURSIVE FindDuplicatesLosers(_)
FindDuplicatesLosers(map) ==
    IF map = <<>> THEN <<>>
    ELSE LET infos == map[Len(map)].val
             rest == FindDuplicatesLosers(SubSeq(map, 1, Len(map) - 1))
         IN ReportLosers(rest, Tail(infos))

\* findDuplicateLibraries / findDuplicatePlugins / findDuplicateAnnotations
RECURSIVE FindDuplicates(_)
FindDuplicates(map) ==
    IF map = <<>> THEN <<>>
    ELSE LET infos == map[Len(map)].val
             rest == FindDuplicates(SubSeq(map, 1, Len(map) - 1))
         IN IF Len(infos) = 1 THEN rest
            ELSE LET first == DuplicateToReport(infos)
                 IN MapSet(rest, first.source,
                           Append(IF MapHas(rest, first.source)
                                  THEN MapGet(rest, first.source) ELSE <<>>, first))

\* the last candidate of a name wins
PickLast(infos) == infos[Len(infos)]

\* "Picking first library source for all libraries": infos[0]
PickWinner(infos) == infos[1]

\* one catalog entry per candidate
RECURSIVE EntryPerCandidate(_)
EntryPerCandidate(map) ==
    IF map = <<>> THEN <<>>
    ELSE EntryPerCandidate(SubSeq(map, 1, Len(map) - 1))
         \o [i \in 1..Len(map[Len(map)].val) |->
                [key |-> map[Len(map)].key, val |-> map[Len(map)].val[i]]]

\* for (const [name, infos] of withDuplicates) sourceMap.set(name, infos[0])
RECURSIVE PickWinners(_)
PickWinners(map) ==
    IF map = <<>> THEN <<>>
    ELSE MapSet(PickWinners(SubSeq(map, 1, Len(map) - 1)),
                map[Len(map)].key, PickWinner(map[Len(map)].val))

(***************************************************************************)
(* The discovery passes of the three kinds side by side for one folder:    *)
(* getAll...Sources followed by the catalog of the kind.  Every await on   *)
(* an archive is a step of its own; an await on an empty list is taken     *)
(* together with the code that follows it.                                 *)
(***************************************************************************)
PassFolder == "f1"

HostJar == Path(TRUE, "h", "b.jar")

IncludedJar == Path(TRUE, "i", "a.jar")

PassFiles == Files \cup {HostJar, IncludedJar}

\* every metadata entry that is tested for and every one that is read
AllMetaFiles == {MetaFileTest(k) : k \in Kinds} \cup {MetaFileRead(k) : k \in Kinds}

\* an archive that cannot be opened, one without metadata, one with the
\* metadata of every kind and one with the metadata of one kind, declaring
\* the given name
Unopenable == [opens |-> FALSE, entries |-> {}, name |-> "X"]

NoMetadata == [opens |-> TRUE, entries |-> {}, name |-> "X"]

Declaring(n) == [opens |-> TRUE, entries |-> AllMetaFiles, name |-> n]

OfKind(k, n) == [opens |-> TRUE, entries |-> {MetaFileTest(k), MetaFileRead(k)}, name |-> n]

PassJarStates == {Unopenable, Declaring("X"), OfKind("library", "Y"), OfKind("plugin", "Y")}

\* the search-path setting of a scope: nothing or one declared path
PassSettings == {<<>>} \cup {<<p>> : p \in DeclaredPaths}

\* getUserExtensionSources(wsFolder) as a function of jarCache: what it
\* returns and what it leaves in jarCache
UserExtensionSourcesOf(cache, wsFolder) ==
    LET fs == folderSettings[wsFolder]
        uws == userOrWorkspaceSettings
        first == ResolveJarPathsFromSettings(cache, fs, <<>>, wsFolder)
        second == ResolveJarPathsFromSettings(first.cache, uws, first.failed, NoRoot)
        merged == IF SettingsDiffer(fs, uws)
                  THEN first.returned \o FilterExisting(second.returned, first.returned)
                  ELSE first.returned
    IN [result |-> [i \in 1..Len(merged) |-> UserSource(merged[i])],
        cache |-> Defined(merged)]

\* the list the filter has kept replaces the cached list
CacheAfterFilterShared(cache, validSources) ==
    Defined([i \in 1..Len(validSources) |-> validSources[i].jarPath])

\* filterExtensionSources collects into a validSources array of its own: the
\* cached list stays as it is
CacheAfterFilter(cache, validSources) == cache

\* the body of the loop of filterExtensionSources for one source
PassesFilter(src, k) ==
    passJars[src.jarPath].opens /\ FileExists(passJars[src.jarPath], MetaFileTest(k))

\* the return statement of getAll...Sources
ConcatSources(k, user, default, extension) ==
    IF k = "library" THEN user \o default ELSE user \o default \o extension

\* AddLibraryHandler.getAllLibInfo takes its sources from the resolver
\* without a cache, with includeDefaultLibraries set
LibCatalogSources(wsFolder) ==
    LET fs == folderSettings[wsFolder]
        uws == userOrWorkspaceSettings
        first == LibResolveJarPathsFromSettings(fs, <<>>, wsFolder)
        second == LibResolveJarPathsFromSettings(uws, first.failed, NoRoot)
        merged == IF SettingsDiffer(fs, uws)
                  THEN first.returned \o FilterExisting(second.returned, first.returned)
                  ELSE first.returned
        libraries == [i \in 1..Len(merged) |-> UserSource(merged[i])]
    IN libraries \o GetDefaultExtensionSources(includedJarsPaths, libraries)

NoPassRun == [pc |-> "idle", idx |-> 0, todo |-> <<>>, valid |-> <<>>, user |-> <<>>,
              sources |-> <<>>, candidates |-> <<>>, catalog |-> <<>>]

\* getDefault...Sources, the return of getAll...Sources, and the start of
\* the catalog loop over the sources
EnterCatalog(rec, k, extension) ==
    LET default == GetDefaultExtensionSources(includedJarsPaths, extension)
        srcs == ConcatSources(k, rec.user, default, extension)
        toRead == IF k = "library" THEN LibCatalogSources(PassFolder) ELSE srcs
    IN [rec EXCEPT !.sources = srcs, !.todo = toRead, !.idx = 1, !.valid = <<>>,
                   !.pc = IF toRead = <<>> THEN "done" ELSE "catalog"]

\* getExtension...Sources(user...) up to its first await on an archive
EnterHost(rec, k, user) ==
    LET todo == GetExtensionExtensionSources(user)
        next == [rec EXCEPT !.user = user]
    IN IF todo = <<>> THEN EnterCatalog(next, k, <<>>)
       ELSE [next EXCEPT !.todo = todo, !.idx = 1, !.valid = <<>>, !.pc = "filterHost"]

\* get...InfoFromSource of one source: the pass fails, or the candidates
\* after this source
ReadFails(src, k) ==
    \/ ~passJars[src.jarPath].opens
    \/ k = "library" /\ ~FileExists(passJars[src.jarPath], MetaFileRead(k))

CandidatesAfter(map, src, k) ==
    IF FileExists(passJars[src.jarPath], MetaFileRead(k))
    THEN PushCandidate(map, [name |-> passJars[src.jarPath].name, source |-> src])
    ELSE map

ConcInit ==
    /\ folderSettings \in {[f \in Folders |-> IF f = PassFolder THEN a ELSE <<>>] :
                              a \in PassSettings}
    /\ userOrWorkspaceSettings \in PassSettings
    /\ jarCache \in {Undefined, Defined(<<Path(TRUE, "w", "b.jar")>>)}
    /\ lastPass = NoPass
    /\ userExtensionSources = <<>>
    /\ enhancementPaths = <<HostJar>>
    /\ includedJarsPaths = <<IncludedJar>>
    /\ jarFiles = [p \in UserPaths \cup HostPaths \cup IncludedPaths |->
                      [opens |-> TRUE, entries |-> {}]]
    /\ allSources = NoSources
    /\ passJars \in [PassFiles -> PassJarStates \cup {Declaring("Y")}]
    /\ \A p \in Files : passJars[p] = Declaring("Y") => p = Path(TRUE, "w", "a.jar")
    /\ passJars[HostJar] = Declaring("Y")
    /\ passJars[IncludedJar] = Declaring("X")
    /\ passJars[Path(TRUE, "w", "a.jar")] \in {OfKind("plugin", "Y"), Declaring("Y")}
    /\ passes = [k \in Kinds |-> NoPassRun]
    /\ cacheAtStart = jarCache
    /\ overlapped = FALSE

ConcIdle ==
    /\ passJars = [p \in PassFiles |-> NoMetadata]
    /\ passes = [k \in Kinds |-> NoPassRun]
    /\ cacheAtStart = Undefined
    /\ overlapped = FALSE

DiscInit ==
    /\ kind \in {"library", "plugin", "annotation"}
    /\ dialect \in DialectArgs(kind)
    /\ precision \in PrecisionArgs(kind)
    /\ sources \in {<<>>, <<Source("j1"), Source("j2")>>}
    /\ jarMeta \in [Archives -> UNION {JarContents(kind, a) : a \in Archives}]
    /\ \A a \in Archives : jarMeta[a] \in JarContents(kind, a)
    /\ sources = <<>> => \A a \in Archives : jarMeta[a].status = "nometa"
    /\ pc = [p \in Passes |-> "idle"]
    /\ idx = [p \in Passes |-> 0]
    /\ sourceMapWithDuplicates = [p \in Passes |-> <<>>]
    /\ sourceMap = [p \in Passes |-> <<>>]
    /\ duplicateMap = [p \in Passes |-> <<>>]

DiscIdle ==
    /\ kind = "library" /\ dialect = "vdmsl" /\ precision = "standard"
    /\ sources = <<>>
    /\ jarMeta = [a \in Archives |-> [status |-> "nometa", recs |-> <<>>]]
    /\ pc = [p \in Passes |-> "idle"]
    /\ idx = [p \in Passes |-> 0]
    /\ sourceMapWithDuplicates = [p \in Passes |-> <<>>]
    /\ sourceMap = [p \in Passes |-> <<>>]
    /\ duplicateMap = [p \in Passes |-> <<>>]

\* the pass is called; with no sources it returns an empty catalog at once
StartPass(p) ==
    /\ pc[p] = "idle"
    /\ IF sources = <<>>
       THEN pc' = [pc EXCEPT ![p] = "done"] /\ UNCHANGED idx
       ELSE pc' = [pc EXCEPT ![p] = "open"] /\ idx' = [idx EXCEPT ![p] = 1]
    /\ UNCHANGED <<sourceMapWithDuplicates, sourceMap, duplicateMap>>
    /\ UNCHANGED <<discEnv, depVars, pathVars, srcVars, enableVars, jarFileVars, addVars, promptVars, pairVars, launchVars, pogVars, concVars>>

\* await JarFile.open(source.jarPath) settles; a rejection ends the pass
OpenSettles(p) ==
    /\ pc[p] = "open"
    /\ pc' = [pc EXCEPT ![p] =
                IF jarMeta[sources[idx[p]].jarPath].status = "corrupt"
                THEN "failed" ELSE "read"]
    /\ UNCHANGED <<idx, sourceMapWithDuplicates, sourceMap, duplicateMap>>
    /\ UNCHANGED <<discEnv, depVars, pathVars, srcVars, enableVars, jarFileVars, addVars, promptVars, pairVars, launchVars, pogVars, concVars>>

\* the candidates list after the metadata of `src` was read
AfterRead(map, src) ==
    IF kind = "library"
    THEN PushCandidates(map, LibInfosFromSource(src, dialect))
    ELSE IF jarMeta[src.jarPath].status = "nometa"
         THEN map
         ELSE LET info == ExtInfoFromSource(src)
              IN IF Retained(info, dialect, precision)
                 THEN PushCandidate(map, info) ELSE map

\* await jarFile.readFile(metadata entry) settles; the loop body runs, and
\* after the last source the rest of the function runs in the same turn
ReadSettles(p) ==
    /\ pc[p] = "read"
    /\ LET src == sources[idx[p]]
       IN IF kind = "library" /\ jarMeta[src.jarPath].status = "nometa"
          THEN \* undefined.toString() throws
               /\ pc' = [pc EXCEPT ![p] = "failed"]
               /\ UNCHANGED <<idx, sourceMapWithDuplicates, sourceMap, duplicateMap>>
          ELSE LET map == AfterRead(sourceMapWithDuplicates[p], src)
               IN /\ sourceMapWithDuplicates' =
                        [sourceMapWithDuplicates EXCEPT ![p] = map]
                  /\ IF idx[p] < Len(sources)
                     THEN /\ idx' = [idx EXCEPT ![p] = idx[p] + 1]
                          /\ pc' = [pc EXCEPT ![p] = "open"]
                          /\ UNCHANGED <<sourceMap, duplicateMap>>
                     ELSE /\ duplicateMap' = [duplicateMap EXCEPT ![p] = FindDuplicates(map)]
                          /\ sourceMap' = [sourceMap EXCEPT ![p] = PickWinners(map)]
                          /\ pc' = [pc EXCEPT ![p] = "done"]
                          /\ UNCHANGED idx
    /\ UNCHANGED <<discEnv, depVars, pathVars, srcVars, enableVars, jarFileVars, addVars, promptVars, pairVars, launchVars, pogVars, concVars>>

DiscNext ==
    \E p \in Passes : StartPass(p) \/ OpenSettles(p) \/ ReadSettles(p)

InitDisc == DiscInit /\ DepIdle /\ PathIdle /\ SrcIdle /\ EnableIdle /\ JarFileIdle /\ AddIdle /\ PromptIdle /\ PairIdle /\ LaunchIdle /\ PogIdle /\ ConcIdle

SpecDisc == InitDisc /\ [][DiscNext]_vars

(***************************************************************************)
(* Search-path resolution: specification                                   *)
(***************************************************************************)
\* getUserExtensionSources(wsFolder).  jarPathsFromSettings is the array the
\* cache holds, so what is pushed onto it is pushed onto the cache.
GetUserExtensionSources(wsFolder) ==
    LET fs == folderSettings[wsFolder]
        uws == userOrWorkspaceSettings
        first == ResolveJarPathsFromSettings(jarCache, fs, <<>>, wsFolder)
        second == ResolveJarPathsFromSettings(first.cache, uws, first.failed, NoRoot)
        differ == SettingsDiffer(fs, uws)
        merged == IF differ
                  THEN first.returned \o FilterExisting(second.returned, first.returned)
                  ELSE first.returned
    IN /\ jarCache' = Defined(merged)
       /\ lastPass' =
            [handler |-> "VDMJExtensionsHandler",
             folder |-> wsFolder,
             repeated |-> lastPass.handler = "VDMJExtensionsHandler" /\ lastPass.folder = wsFolder,
             calls |-> <<[jarPaths |-> fs, root |-> wsFolder, returned |-> first.returned]>>
                       \o (IF differ
                           THEN <<[jarPaths |-> uws, root |-> NoRoot,
                                   returned |-> second.returned]>>
                           ELSE <<>>),
             result |-> [i \in 1..Len(merged) |-> UserSource(merged[i])],
             failed |-> IF differ THEN second.failed ELSE first.failed]
       /\ UNCHANGED <<folderSettings, userOrWorkspaceSettings, depVars, discVars, srcVars, enableVars, jarFileVars, addVars, promptVars, pairVars, launchVars, pogVars, concVars>>

\* AddLibraryHandler.getUserLibrarySources(wsFolder): the same merge over the
\* resolver that keeps no cache
GetUserLibrarySources(wsFolder) ==
    LET fs == folderSettings[wsFolder]
        uws == userOrWorkspaceSettings
        first == LibResolveJarPathsFromSettings(fs, <<>>, wsFolder)
        second == LibResolveJarPathsFromSettings(uws, first.failed, NoRoot)
        differ == SettingsDiffer(fs, uws)
        merged == IF differ
                  THEN first.returned \o FilterExisting(second.returned, first.returned)
                  ELSE first.returned
    IN /\ lastPass' =
            [handler |-> "AddLibraryHandler",
             folder |-> wsFolder,
             repeated |-> lastPass.handler = "AddLibraryHandler" /\ lastPass.folder = wsFolder,
             calls |-> <<[jarPaths |-> fs, root |-> wsFolder, returned |-> first.returned]>>
                       \o (IF differ
                           THEN <<[jarPaths |-> uws, root |-> NoRoot,
                                   returned |-> second.returned]>>
                           ELSE <<>>),
             result |-> [i \in 1..Len(merged) |-> UserSource(merged[i])],
             failed |-> IF differ THEN second.failed ELSE first.failed]
       /\ UNCHANGED <<folderSettings, userOrWorkspaceSettings, jarCache, depVars, discVars, srcVars, enableVars, jarFileVars, addVars, promptVars, pairVars, launchVars, pogVars, concVars>>

PathNext ==
    \E wsFolder \in Folders :
        \/ GetUserExtensionSources(wsFolder)
        \/ GetUserLibrarySources(wsFolder)

InitPaths == PathInit /\ DepIdle /\ DiscIdle /\ SrcIdle /\ EnableIdle /\ JarFileIdle /\ AddIdle /\ PromptIdle /\ PairIdle /\ LaunchIdle /\ PogIdle /\ ConcIdle

SpecPaths == InitPaths /\ [][PathNext]_vars

\* the passes of a session that only uses VDMJExtensionsHandler
ExtensionNext == \E wsFolder \in Folders : GetUserExtensionSources(wsFolder)

SpecExtensionPaths == InitPaths /\ [][ExtensionNext]_vars

(***************************************************************************)
(* Assembly of the source list: specification                              *)
(***************************************************************************)
\* one getAll...Sources call; it only reads the archives, so what it returns
\* does not depend on how its awaits interleave with other calls
GetAllSources(k) ==
    /\ allSources' =
         [kind |-> k,
          result |-> IF k = "library" THEN GetAllLibrarySources
                     ELSE IF k = "plugin" THEN GetAllPluginSources
                     ELSE GetAllAnnotationSources]
    /\ UNCHANGED <<userExtensionSources, enhancementPaths, includedJarsPaths, jarFiles>>
    /\ UNCHANGED <<depVars, discVars, pathVars, enableVars, jarFileVars, addVars, promptVars, pairVars, launchVars, pogVars, concVars>>

SrcNext == \E k \in Kinds : GetAllSources(k)

InitSources == SrcInit /\ DepIdle /\ DiscIdle /\ PathIdle /\ EnableIdle /\ JarFileIdle /\ AddIdle /\ PromptIdle /\ PairIdle /\ LaunchIdle /\ PogIdle /\ ConcIdle

SpecSources == InitSources /\ [][SrcNext]_vars

(***************************************************************************)
(* Dependency resolver: specification                                      *)
(***************************************************************************)
DepInit ==
    /\ \E present \in SUBSET LibNames :
         \E deps \in [present -> DepLists] :
            libSourceMap = BuildCatalog(present, deps)
    /\ depRoot = "none"
    /\ depResult = NoResult

\* addLibFilesToTarget resolves the dependencies of a selected catalog entry
ResolveSelected(root) ==
    /\ MapHas(libSourceMap, root)
    /\ depRoot' = root
    /\ depResult' = ResolveLibraryDependencies(MapGet(libSourceMap, root),
                                               libSourceMap, MaxCallDepth)
    /\ UNCHANGED <<libSourceMap, discVars, pathVars, srcVars, enableVars, jarFileVars, addVars, promptVars, pairVars, launchVars, pogVars, concVars>>

DepNext == \E root \in LibNames : ResolveSelected(root)

InitDeps == DepInit /\ DiscIdle /\ PathIdle /\ SrcIdle /\ EnableIdle /\ JarFileIdle /\ AddIdle /\ PromptIdle /\ PairIdle /\ LaunchIdle /\ PogIdle /\ ConcIdle

SpecDeps == InitDeps /\ [][DepNext]_vars

(***************************************************************************)
(* Enablement: specification                                               *)
(***************************************************************************)
\* handleManagePlugins / handleManageAnnotations up to the selection dialog
StartManage ==
    /\ managePc = "idle"
    /\ initialState' = GetState(extKind, discovered, enabledConfiguration)
    /\ managePc' = "prompt"
    /\ UNCHANGED <<extKind, discovered, enabledConfiguration, updatedState, manageRun,
                   classpathAdditions, compared>>
    /\ UNCHANGED <<depVars, discVars, pathVars, srcVars, jarFileVars, addVars, promptVars, pairVars, launchVars, pogVars, concVars>>

\* the dialog settles with `answer`; the handler compares and commits
AnswerPrompt(answer) ==
    /\ managePc = "prompt"
    /\ LET updated == PromptUser(extKind, initialState, answer)
           equal == updated.defined /\ AreStatesEqual(initialState, updated.value)
           write == CommitsChange(initialState, updated)
       IN /\ updatedState' = updated
          /\ enabledConfiguration' =
                IF write THEN NewEnabledConfig(updated.value) ELSE enabledConfiguration
          /\ manageRun' = [answer |-> answer, equal |-> equal, wrote |-> write,
                           finished |-> TRUE]
    /\ managePc' = "idle"
    /\ UNCHANGED <<extKind, discovered, initialState, classpathAdditions, compared>>
    /\ UNCHANGED <<depVars, discVars, pathVars, srcVars, jarFileVars, addVars, promptVars, pairVars, launchVars, pogVars, concVars>>

\* getClasspathAdditions, called when the server of the folder is launched
GetClasspathAdditions ==
    /\ LET currentState == GetState(extKind, discovered, enabledConfiguration)
       IN classpathAdditions' =
             Defined([state |-> currentState, paths |-> ClasspathOf(currentState)])
    /\ UNCHANGED <<extKind, discovered, enabledConfiguration, managePc, initialState,
                   updatedState, manageRun, compared>>
    /\ UNCHANGED <<depVars, discVars, pathVars, srcVars, jarFileVars, addVars, promptVars, pairVars, launchVars, pogVars, concVars>>

EnableNext ==
    \/ StartManage
    \/ \E answer \in QuickPickAnswers(extKind, initialState) : AnswerPrompt(answer)
    \/ GetClasspathAdditions

InitEnable == EnableInit /\ DepIdle /\ DiscIdle /\ PathIdle /\ SrcIdle /\ JarFileIdle /\ AddIdle /\ PromptIdle /\ PairIdle /\ LaunchIdle /\ PogIdle /\ ConcIdle

SpecEnable == InitEnable /\ [][EnableNext]_vars

\* the same catalog with every description or every source type changed
Redescribed(catalog) ==
    [i \in 1..Len(catalog) |->
        [key |-> catalog[i].key,
         val |-> ExtInfo(catalog[i].key, catalog[i].val.source.type, "d2")]]

Resourced(catalog) ==
    [i \in 1..Len(catalog) |->
        [key |-> catalog[i].key,
         val |-> ExtInfo(catalog[i].key,
                         IF catalog[i].val.source.type = "user" THEN "builtin" ELSE "user",
                         catalog[i].val.description)]]

\* areStatesEqual applied to two states over the same names, each derived from
\* a catalog and a stored setting
CompareStates(k, catalogA, catalogB, cfgA, cfgB) ==
    /\ ~compared.called
    /\ LET a == GetState(k, catalogA, cfgA)
           b == GetState(k, catalogB, cfgB)
       IN compared' = [a |-> a, b |-> b, sameSettings |-> (cfgA = cfgB),
                       called |-> TRUE, result |-> AreStatesEqual(a, b)]
    /\ UNCHANGED <<extKind, discovered, enabledConfiguration, managePc, initialState,
                   updatedState, manageRun, classpathAdditions>>
    /\ UNCHANGED <<depVars, discVars, pathVars, srcVars, jarFileVars, addVars, promptVars, pairVars, launchVars, pogVars, concVars>>

\* the stored settings that differ on the names of a catalog
ConfigurationsOver(l) == UNION {[K -> BOOLEAN] : K \in SUBSET Range(l)}

\* one list per set of names
OrderedNameLists ==
    {l \in NameLists :
        \A i, j \in 1..Len(l) :
           i < j => \E a, b \in 1..Len(ExtNameOrder) :
                      a < b /\ ExtNameOrder[a] = l[i] /\ ExtNameOrder[b] = l[j]}

CompareNext ==
    \E k \in ExtKinds, l \in OrderedNameLists :
       \E catalogA \in CatalogsOver(l, {"d1"}) :
          \E catalogB \in {catalogA, Redescribed(catalogA), Resourced(catalogA)} :
             \E cfgA, cfgB \in ConfigurationsOver(l) :
                CompareStates(k, catalogA, catalogB, cfgA, cfgB)

InitCompare == EnableIdle /\ DepIdle /\ DiscIdle /\ PathIdle /\ SrcIdle /\ JarFileIdle /\ AddIdle /\ PromptIdle /\ PairIdle /\ LaunchIdle /\ PogIdle /\ ConcIdle

SpecCompare == InitCompare /\ [][CompareNext]_vars

(***************************************************************************)
(* JarFile: specification                                                  *)
(***************************************************************************)
JarOthers == <<depVars, discVars, pathVars, srcVars, enableVars, addVars, promptVars, pairVars, launchVars, pogVars, concVars>>

\* readFile(path), called when no other call on the handle is in progress
ReadFile(path) ==
    /\ \/ readCall.pc \in {"none", "settled"}
       \/ readCall.pc = "scanning" /\ ~isOpen
    /\ LET cachedEntry == CacheLookup(cachedEntries, path)
           call == [NoCall EXCEPT !.path = path, !.closedAtCall = ~isOpen]
       IN IF ClosedGuard(isOpen)
          THEN \* throw new Error("The JAR has already been closed ...")
               /\ readCall' = [call EXCEPT !.pc = "settled", !.outcome = "error"]
               /\ UNCHANGED <<listeners, readEntryPending, readerRefs>>
          ELSE IF cachedEntry.kind = "entry"
          THEN \* cache hit: openReadStream(cachedEntry); a closed container
               \* answers the callback with an error
               /\ readCall' = IF isOpen
                              THEN [call EXCEPT !.pc = "streaming",
                                                !.entry = cachedEntry.index]
                              ELSE [call EXCEPT !.pc = "settled", !.outcome = "error"]
               /\ readerRefs' = IF isOpen THEN readerRefs + 1 ELSE readerRefs
               /\ UNCHANGED <<listeners, readEntryPending>>
          ELSE IF cachedEntry.kind = "inherited"
          THEN \* truthy, but not an entry: openReadStream throws in the executor
               /\ readCall' = [call EXCEPT !.pc = "settled", !.outcome = "error"]
               /\ UNCHANGED <<listeners, readEntryPending, readerRefs>>
          ELSE \* cache miss: consumeEntriesUntilMatch registers its listeners
               \* and asks for the next entry
               /\ readCall' = [call EXCEPT !.pc = "scanning"]
               /\ listeners' = listeners \cup {"handleEntryMatch", "handleEnd"}
               /\ readEntryPending' = TRUE
               /\ UNCHANGED readerRefs
    /\ UNCHANGED <<zipEntries, entriesRead, isOpen, cachedEntries, pulled, closeCall>>
    /\ UNCHANGED JarOthers

\* the container emits the next entry of the table
EmitEntry ==
    /\ readEntryPending /\ isOpen
    /\ entriesRead < Len(zipEntries)
    /\ LET index == entriesRead + 1
           fileName == zipEntries[index]
           scanning == "handleEntryMatch" \in listeners
           matched == scanning /\ EntryMatches(fileName, readCall.path)
       IN /\ entriesRead' = index
          /\ pulled' = [pulled EXCEPT ![index] = IF @ < 2 THEN @ + 1 ELSE @]
          /\ cachedEntries' =
                IF listeners \cap {"handleEntry", "handleEntryMatch"} # {}
                THEN HandleEntry(cachedEntries, fileName, index)
                ELSE cachedEntries
          /\ listeners' = IF matched THEN listeners \ {"handleEntryMatch", "handleEnd"}
                          ELSE listeners
          /\ readEntryPending' = (scanning /\ ReadsNextEntry(matched))
          /\ readCall' = IF matched /\ readCall.pc = "scanning"
                         THEN [readCall EXCEPT !.pc = "streaming", !.entry = index]
                         ELSE readCall
          /\ readerRefs' = IF matched /\ readCall.pc = "scanning"
                           THEN readerRefs + 1 ELSE readerRefs
    /\ UNCHANGED <<zipEntries, isOpen, closeCall>>
    /\ UNCHANGED JarOthers

\* the container has no entry left and emits "end"
EmitEnd ==
    /\ readEntryPending
    /\ entriesRead = Len(zipEntries)
    /\ readEntryPending' = FALSE
    /\ IF "handleEnd" \in listeners
       THEN /\ listeners' = listeners \ {"handleEntryMatch", "handleEnd"}
            /\ readCall' = IF readCall.pc = "scanning"
                           THEN [readCall EXCEPT !.pc = "settled", !.outcome = "undefined"]
                           ELSE readCall
       ELSE UNCHANGED <<listeners, readCall>>
    /\ UNCHANGED <<zipEntries, entriesRead, isOpen, cachedEntries, pulled, readerRefs, closeCall>>
    /\ UNCHANGED JarOthers

\* a pending read of a closed container emits nothing
ReadAfterClose ==
    /\ readEntryPending /\ ~isOpen
    /\ entriesRead < Len(zipEntries)
    /\ readEntryPending' = FALSE
    /\ UNCHANGED <<zipEntries, entriesRead, isOpen, cachedEntries, listeners, readCall, pulled,
                   readerRefs, closeCall>>
    /\ UNCHANGED JarOthers

\* the read stream of the entry has been consumed
StreamSettles ==
    /\ readCall.pc = "streaming"
    /\ readCall' = [readCall EXCEPT !.pc = "settled", !.outcome = "data",
                                    !.data = ReadEntryToBuffer(zipEntries, readCall.entry)]
    /\ readerRefs' = readerRefs - 1
    /\ UNCHANGED <<zipEntries, entriesRead, isOpen, cachedEntries, listeners,
                   readEntryPending, pulled, closeCall>>
    /\ UNCHANGED JarOthers

\* close(): removeAllListeners(), then the container's close, which does
\* nothing on a closed container
Close ==
    /\ listeners' = {}
    /\ isOpen' = FALSE
    /\ readerRefs' = IF ReaderRefsAfterClose(isOpen, readerRefs) < 0 THEN readerRefs
                     ELSE ReaderRefsAfterClose(isOpen, readerRefs)
    /\ closeCall' = [called |-> TRUE,
                     during |-> IF closeCall.called THEN closeCall.during ELSE readCall.pc,
                     threw |-> closeCall.threw \/ ReaderRefsAfterClose(isOpen, readerRefs) < 0]
    /\ UNCHANGED <<zipEntries, entriesRead, cachedEntries, readEntryPending, readCall, pulled>>
    /\ UNCHANGED JarOthers

JarFileNext ==
    \/ \E path \in RequestPaths : ReadFile(path)
    \/ EmitEntry
    \/ EmitEnd
    \/ ReadAfterClose
    \/ StreamSettles
    \/ Close

InitJarFile == JarFileInit /\ DepIdle /\ DiscIdle /\ PathIdle /\ SrcIdle /\ EnableIdle /\ AddIdle /\ PromptIdle /\ PairIdle /\ LaunchIdle /\ PogIdle /\ ConcIdle

SpecJarFile == InitJarFile /\ [][JarFileNext]_vars

\* the event loop delivers every event the container has been asked for and
\* every stream that was opened is read to its end
JarFileFairness ==
    /\ WF_vars(EmitEntry)
    /\ WF_vars(EmitEnd)
    /\ WF_vars(ReadAfterClose)
    /\ WF_vars(StreamSettles)

SpecJarFileFair == InitJarFile /\ [][JarFileNext]_vars /\ JarFileFairness

(***************************************************************************)
(* Adding libraries: specification                                         *)
(***************************************************************************)
\* addLibFilesToTarget on the entries the user picked
AddLibFilesToTarget(selectedLibs) ==
    /\ LET built == BuildImportMap(selectedLibs, discoveredLibraries, NoImports)
       IN addRun' = [selected |-> selectedLibs,
                     thrown |-> built.thrown,
                     importMap |-> built.importMap,
                     warnings |-> built.warnings,
                     copied |-> ~built.thrown,
                     copy |-> IF built.thrown THEN NoCopy
                              ELSE CopyLibFilesToTarget(built.importMap, archiveFiles,
                                                        1, <<>>)]
    /\ UNCHANGED <<discoveredLibraries, archiveFiles>>
    /\ UNCHANGED <<depVars, discVars, pathVars, srcVars, enableVars, jarFileVars, promptVars, pairVars, launchVars, pogVars, concVars>>

AddNext == \E selectedLibs \in Selections(discoveredLibraries) : AddLibFilesToTarget(selectedLibs)

InitAdd == AddInit /\ DepIdle /\ DiscIdle /\ PathIdle /\ SrcIdle /\ EnableIdle /\ JarFileIdle /\ PromptIdle /\ PairIdle /\ LaunchIdle /\ PogIdle /\ ConcIdle

SpecAdd == InitAdd /\ [][AddNext]_vars

(***************************************************************************)
(* The dialog step on objects: specification                               *)
(***************************************************************************)
\* the dialog settles with `answer`; the handler then compares the states
PromptUserManage(answer) ==
    /\ ~promptCall.called
    /\ LET res == PromptOnObjects(objects, promptCall.currentState, answer.value)
       IN IF ~answer.defined
          THEN /\ objects' = objects
               /\ promptCall' = [promptCall EXCEPT !.called = TRUE, !.answer = answer]
          ELSE /\ objects' = res.heap
               /\ promptCall' = [promptCall EXCEPT
                      !.called = TRUE, !.answer = answer,
                      !.newState = Defined(res.state),
                      !.equal = AreStatesEqual(Deref(res.heap, promptCall.currentState),
                                               Deref(res.heap, res.state))]
    /\ UNCHANGED <<depVars, discVars, pathVars, srcVars, enableVars, jarFileVars, addVars, pairVars, launchVars, pogVars, concVars>>

PromptNext ==
    \E answer \in QuickPickAnswers(promptCall.kind, Deref(objects, promptCall.currentState)) :
        PromptUserManage(answer)

InitPrompt == PromptInit /\ DepIdle /\ DiscIdle /\ PathIdle /\ SrcIdle /\ EnableIdle /\ JarFileIdle /\ AddIdle /\ PairIdle /\ LaunchIdle /\ PogIdle /\ ConcIdle

SpecPrompt == InitPrompt /\ [][PromptNext]_vars

(***************************************************************************)
(* JarFile, two calls: specification                                       *)
(***************************************************************************)
PairOthers == <<depVars, discVars, pathVars, srcVars, enableVars, jarFileVars, addVars, promptVars, launchVars, pogVars, concVars>>

\* readFile(path) as call k, up to its first await
ReadFilePair(k, path) ==
    /\ scans.calls[k].pc = "none"
    /\ IF path \in scanCache
       THEN /\ scans' = [scans EXCEPT !.calls[k] =
                            [NoScan EXCEPT !.pc = "streaming", !.path = path]]
            /\ UNCHANGED central
       ELSE /\ scans' = [calls |-> [scans.calls EXCEPT ![k] =
                                      [NoScan EXCEPT !.pc = "scanning", !.path = path]],
                         together |-> scans.together \/ Scanning(scans.calls) # {}]
            /\ central' = ReadEntry(central)
    /\ UNCHANGED <<pairEntries, scanCache>>
    /\ UNCHANGED PairOthers

\* a read of the container that started at the cursor and is the next to finish
EmitNextEntry ==
    /\ central.reads # <<>> /\ central.reads[1].kind = "entry"
    /\ ~central.emittedError /\ ~central.misaligned
    /\ central.reads[1].at = central.cursor
    /\ LET fileName == pairEntries[central.cursor + 1]
           calls == OnEntry(scans.calls, fileName)
       IN /\ scanCache' = scanCache \cup {fileName}
          /\ scans' = [scans EXCEPT !.calls = calls]
          /\ central' = ReadEntryTimes(
                            [central EXCEPT !.reads = Tail(@), !.cursor = @ + 1,
                                            !.entriesRead = @ + 1],
                            Cardinality(Scanning(calls)))
    /\ UNCHANGED pairEntries
    /\ UNCHANGED PairOthers

\* a read that started at a cursor another read has since moved: it parses
\* bytes that are no record, and either fails or yields an entry that is none
EmitRaced(outcome) ==
    /\ central.reads # <<>> /\ central.reads[1].kind = "entry"
    /\ ~central.emittedError
    /\ central.misaligned \/ central.reads[1].at # central.cursor
    /\ IF outcome = "error"
       THEN /\ central' = [central EXCEPT !.reads = Tail(@), !.emittedError = TRUE]
            /\ UNCHANGED <<scans, scanCache>>
       ELSE /\ central' = ReadEntryTimes(
                             [central EXCEPT !.reads = Tail(@), !.misaligned = TRUE,
                                             !.entriesRead = @ + 1],
                             Cardinality(Scanning(scans.calls)))
            /\ scanCache' = scanCache \cup {"?"}
            /\ UNCHANGED scans
    /\ UNCHANGED pairEntries
    /\ UNCHANGED PairOthers

\* the scheduled "end" is emitted, unless the container has emitted an error
EmitPairEnd ==
    /\ central.reads # <<>> /\ central.reads[1].kind = "end"
    /\ central' = [central EXCEPT !.reads = Tail(@)]
    /\ scans' = IF central.emittedError THEN scans
                ELSE [scans EXCEPT !.calls = OnEnd(scans.calls)]
    /\ UNCHANGED <<pairEntries, scanCache>>
    /\ UNCHANGED PairOthers

\* a read that finishes after the container has emitted an error does nothing
DropRead ==
    /\ central.reads # <<>> /\ central.reads[1].kind = "entry"
    /\ central.emittedError
    /\ central' = [central EXCEPT !.reads = Tail(@)]
    /\ UNCHANGED <<pairEntries, scanCache, scans>>
    /\ UNCHANGED PairOthers

\* readEntryToBuffer of call k has consumed the stream of its entry
PairStreamSettles(k) ==
    /\ scans.calls[k].pc = "streaming"
    /\ scans' = [scans EXCEPT !.calls[k] =
                    [@ EXCEPT !.pc = "settled", !.outcome = "data",
                              !.data = scans.calls[k].path]]
    /\ UNCHANGED <<pairEntries, central, scanCache>>
    /\ UNCHANGED PairOthers

PairNext ==
    \/ \E k \in ScanCalls, path \in EntryNames : ReadFilePair(k, path)
    \/ EmitNextEntry
    \/ \E outcome \in RaceOutcomes : EmitRaced(outcome)
    \/ EmitPairEnd
    \/ DropRead
    \/ \E k \in ScanCalls : PairStreamSettles(k)

InitPair == PairInit /\ DepIdle /\ DiscIdle /\ PathIdle /\ SrcIdle /\ EnableIdle /\ JarFileIdle /\ AddIdle /\ PromptIdle /\ LaunchIdle /\ PogIdle /\ ConcIdle

SpecJarPair == InitPair /\ [][PairNext]_vars

(***************************************************************************)
(* ServerFactory.launchServer: specification                               *)
(***************************************************************************)
LaunchServer ==
    /\ ~classPath.defined
    /\ classPath' = Defined(ConstructClassPath(launchEnv))
    /\ UNCHANGED launchEnv
    /\ UNCHANGED <<depVars, discVars, pathVars, srcVars, enableVars, jarFileVars, addVars, promptVars, pairVars, pogVars, concVars>>

LaunchNext == LaunchServer

InitLaunch == LaunchInit /\ DepIdle /\ DiscIdle /\ PathIdle /\ SrcIdle /\ EnableIdle /\ JarFileIdle /\ AddIdle /\ PromptIdle /\ PairIdle /\ PogIdle /\ ConcIdle

SpecLaunch == InitLaunch /\ [][LaunchNext]_vars

(***************************************************************************)
(* ProofObligationPanel: specification                                     *)
(***************************************************************************)
PogOthers == <<depVars, discVars, pathVars, srcVars, enableVars, jarFileVars, addVars, promptVars, pairVars, launchVars, concVars>>

\* onRunPog up to `await provideProofObligations`, from the run command or
\* from onUpdate(true), which starts it only while a panel exists
StartRunPog(fromUpdate) ==
    /\ started.pog < MaxPogRuns
    /\ fromUpdate => panel # 0
    /\ started' = [started EXCEPT !.pog = @ + 1]
    /\ pogAwaiting' = pogAwaiting + 1
    /\ UNCHANGED <<panel, panelCount, readySent, onReady, promises, qcAwaiting, closed, posted>>
    /\ UNCHANGED PogOthers

\* the provider settles: clearWarning or displayWarning, createWebView,
\* updateContent, then the callbacks that became runnable
ProviderSettles(ok) ==
    /\ pogAwaiting > 0
    /\ panel = 0 => panelCount < MaxPanels
    /\ pogAwaiting' = pogAwaiting - 1
    /\ LET warning == IF ok THEN "posValid" ELSE "posInvalid"
           \* clearWarning / displayWarning on the promise onReady holds now
           first == Runnable(promises, onReady, warning)
           ps1 == Then(promises, onReady, warning)
           \* createWebView
           create == panel = 0
           fresh == create /\ ps1[onReady].resolved
           ps2 == IF fresh THEN Append(ps1, NewPromise) ELSE ps1
           ready2 == IF fresh THEN Len(ps2) ELSE onReady
           \* updateContent
           second == Runnable(ps2, ready2, "newPOs")
           ps3 == Then(ps2, ready2, "newPOs")
           p == IF create THEN panelCount + 1 ELSE panel
       IN /\ panel' = p
          /\ panelCount' = IF create THEN panelCount + 1 ELSE panelCount
          /\ onReady' = ready2
          /\ promises' = ps3
          /\ posted' = PostAll(posted, p, readySent, first \o second)
    /\ UNCHANGED <<readySent, qcAwaiting, started, closed>>
    /\ UNCHANGED PogOthers

\* onUpdate(false) while a panel exists: displayWarning
UpdateCannotRun ==
    /\ panel # 0
    /\ started.updates < MaxUpdates
    /\ started' = [started EXCEPT !.updates = @ + 1]
    /\ promises' = Then(promises, onReady, "posInvalid")
    /\ posted' = PostAll(posted, panel, readySent, Runnable(promises, onReady, "posInvalid"))
    /\ UNCHANGED <<panel, panelCount, readySent, onReady, pogAwaiting, qcAwaiting, closed>>
    /\ UNCHANGED PogOthers

\* the webview of the panel sends readyToReceive: _onReadyCallbacks.resolve()
ReadyToReceive ==
    /\ panel # 0 /\ panel \notin readySent
    /\ readySent' = readySent \cup {panel}
    /\ promises' = [promises EXCEPT ![onReady] = [resolved |-> TRUE, thens |-> <<>>]]
    /\ posted' = PostAll(posted, panel, readySent \cup {panel}, promises[onReady].thens)
    /\ UNCHANGED <<panel, panelCount, onReady, pogAwaiting, qcAwaiting, started, closed>>
    /\ UNCHANGED PogOthers

\* the user closes the panel: clearPanelInfo
ClosePanel ==
    /\ panel # 0
    /\ panel' = 0
    /\ closed' = TRUE
    /\ UNCHANGED <<panelCount, readySent, onReady, promises, pogAwaiting, qcAwaiting, started, posted>>
    /\ UNCHANGED PogOthers

\* the webview sends runQC: the handler waits for runQuickCheck
RunQC ==
    /\ panel # 0 /\ panel \in readySent
    /\ started.qc < MaxQcRuns
    /\ started' = [started EXCEPT !.qc = @ + 1]
    /\ qcAwaiting' = qcAwaiting + 1
    /\ UNCHANGED <<panel, panelCount, readySent, onReady, promises, pogAwaiting, closed, posted>>
    /\ UNCHANGED PogOthers

\* QuickCheck completes: the handler posts newPOs to this._panel
QuickCheckSettles ==
    /\ qcAwaiting > 0
    /\ qcAwaiting' = qcAwaiting - 1
    /\ posted' = PostAll(posted, panel, readySent, <<"newPOs">>)
    /\ UNCHANGED <<panel, panelCount, readySent, onReady, promises, pogAwaiting, started, closed>>
    /\ UNCHANGED PogOthers

PogNext ==
    \/ \E fromUpdate \in BOOLEAN : StartRunPog(fromUpdate)
    \/ \E ok \in BOOLEAN : ProviderSettles(ok)
    \/ UpdateCannotRun
    \/ ReadyToReceive
    \/ ClosePanel
    \/ RunQC
    \/ QuickCheckSettles

InitPog == PogInit /\ DepIdle /\ DiscIdle /\ PathIdle /\ SrcIdle /\ EnableIdle /\ JarFileIdle /\ AddIdle /\ PromptIdle /\ PairIdle /\ LaunchIdle /\ ConcIdle

SpecPog == InitPog /\ [][PogNext]_vars

(***************************************************************************)
(* The discovery passes side by side: specification                        *)
(***************************************************************************)
ConcOthers == <<depVars, discVars, srcVars, enableVars, jarFileVars, addVars, promptVars, pairVars, launchVars, pogVars>>

PassInFlight(k) == passes[k].pc \in {"filterUser", "filterHost", "catalog"}

\* getAll...Sources(wsFolder) is called: getUserExtensionSources runs, and
\* filterExtensionSources up to its first await on an archive
CallGetAllSources(k) ==
    /\ passes[k].pc = "idle"
    /\ LET ues == UserExtensionSourcesOf(jarCache, PassFolder)
       IN /\ jarCache' = ues.cache
          /\ passes' = [passes EXCEPT ![k] =
                IF ues.result = <<>> THEN EnterHost(@, k, <<>>)
                ELSE [@ EXCEPT !.todo = ues.result, !.idx = 1, !.pc = "filterUser"]]
    /\ overlapped' = (overlapped \/ \E o \in Kinds \ {k} : PassInFlight(o))
    /\ UNCHANGED <<folderSettings, userOrWorkspaceSettings, lastPass, passJars, cacheAtStart>>
    /\ UNCHANGED ConcOthers

\* await JarFile.open(extSrc.jarPath) settles in filterExtensionSources; after
\* the last source the code up to the next await on an archive runs
FilterOpenSettles(k) ==
    /\ passes[k].pc \in {"filterUser", "filterHost"}
    /\ LET rec == passes[k]
           src == rec.todo[rec.idx]
           valid == IF PassesFilter(src, k) THEN Append(rec.valid, src) ELSE rec.valid
           last == rec.idx = Len(rec.todo)
       IN /\ passes' = [passes EXCEPT ![k] =
                IF ~last THEN [rec EXCEPT !.idx = rec.idx + 1, !.valid = valid]
                ELSE IF rec.pc = "filterUser" THEN EnterHost(rec, k, valid)
                ELSE EnterCatalog(rec, k, valid)]
          /\ jarCache' = IF last /\ rec.pc = "filterUser"
                         THEN CacheAfterFilter(jarCache, valid) ELSE jarCache
    /\ UNCHANGED <<folderSettings, userOrWorkspaceSettings, lastPass, passJars, cacheAtStart, overlapped>>
    /\ UNCHANGED ConcOthers

\* await get...InfoFromSource(source) settles in the catalog loop; after the
\* last source the winners are picked
CatalogReadSettles(k) ==
    /\ passes[k].pc = "catalog"
    /\ LET rec == passes[k]
           src == rec.todo[rec.idx]
           map == CandidatesAfter(rec.candidates, src, k)
       IN passes' = [passes EXCEPT ![k] =
             IF ReadFails(src, k) THEN [rec EXCEPT !.pc = "failed"]
             ELSE IF rec.idx < Len(rec.todo)
             THEN [rec EXCEPT !.idx = rec.idx + 1, !.candidates = map]
             ELSE [rec EXCEPT !.candidates = map, !.catalog = PickWinners(map),
                              !.pc = "done"]]
    /\ UNCHANGED <<pathVars, passJars, cacheAtStart, overlapped>>
    /\ UNCHANGED ConcOthers

ConcNext ==
    \E k \in Kinds : CallGetAllSources(k) \/ FilterOpenSettles(k) \/ CatalogReadSettles(k)

InitConc == ConcInit /\ DepIdle /\ DiscIdle /\ EnableIdle /\ JarFileIdle /\ AddIdle /\ PromptIdle /\ PairIdle /\ LaunchIdle /\ PogIdle

SpecConc == InitConc /\ [][ConcNext]_vars

\* ---- reference notions the claims speak of ----
DependsOf(n) ==
    IF MapHas(libSourceMap, n) THEN Range(MapGet(libSourceMap, n).depends) ELSE {}

RECURSIVE Closure(_)
Closure(S) ==
    LET T == S \cup UNION {DependsOf(n) : n \in S}
    IN IF T = S THEN S ELSE Closure(T)

\* names reachable from n through one or more depends edges
Reachable(n) == Closure(DependsOf(n))

Acyclic == \A n \in MapKeys(libSourceMap) : n \notin Reachable(n)

Returned == depRoot # "none" /\ ~depResult.overflow

NoRepeats(s) == \A i, j \in 1..Len(s) : s[i] = s[j] => i = j

\* C1: on an acyclic catalog holding every name reachable from the root, the
\* call returns, the keys of `resolved` are exactly the names reachable from
\* the root and `unresolved` is empty.
C1_ClosureComplete ==
    (depRoot # "none" /\ Acyclic /\ Reachable(depRoot) \subseteq MapKeys(libSourceMap))
        => /\ ~depResult.overflow
           /\ MapKeys(depResult.resolved) = Reachable(depRoot)
           /\ depResult.unresolved = <<>>

\* a returned call whose closure holds a dependency of a dependency
C1_Witness ==
    /\ depRoot # "none" /\ Acyclic
    /\ Reachable(depRoot) \subseteq MapKeys(libSourceMap)
    /\ ~depResult.overflow
    /\ Cardinality(MapKeys(depResult.resolved)) = 2
    /\ \E n \in MapKeys(depResult.resolved) : n \notin DependsOf(depRoot)

\* C2: every call returns, also on catalogs with a dependency cycle.
C2_TerminatesOnCycles == depRoot # "none" => ~depResult.overflow

\* C3: on an acyclic catalog `unresolved` lists exactly the reachable names
\* missing from the catalog, each of them once (stated for catalogs whose
\* depends lists name no dependency twice, so that a repeat in `unresolved`
\* can only come from the walk).
C3_UnresolvedExactlyOnce ==
    (depRoot # "none" /\ Acyclic
        /\ \A n \in MapKeys(libSourceMap) : NoRepeats(MapGet(libSourceMap, n).depends))
        => /\ ~depResult.overflow
           /\ Range(depResult.unresolved) = Reachable(depRoot) \ MapKeys(libSourceMap)
           /\ NoRepeats(depResult.unresolved)

\* C4: a call that returns never has the root's own name among the keys of
\* `resolved`.
C4_RootNotResolved == Returned => ~MapHas(depResult.resolved, depRoot)

\* a call on a cyclic catalog that returned a non-empty closure
C4_Witness ==
    /\ Returned
    /\ ~Acyclic
    /\ depResult.resolved # <<>>

\* ---- discovery: the notions the claims speak of ----
\* the records of archive a that a pass retains, as the archive lists them
RetainedRecs(a) ==
    IF jarMeta[a].status # "ok" THEN <<>>
    ELSE SelectSeq(jarMeta[a].recs,
            LAMBDA r : IF kind = "library"
                       THEN r.dialect = dialect
                       ELSE /\ dialect \in r.dialects
                            /\ precision = (IF r.precision = "undefined"
                                            THEN "standard" ELSE r.precision))

Declares(a, X) == \E r \in Range(RetainedRecs(a)) : r.name = X

\* the first record of archive a that declares X
FirstDeclared(a, X) ==
    LET recs == RetainedRecs(a)
    IN recs[CHOOSE i \in 1..Len(recs) :
                recs[i].name = X /\ \A k \in 1..(i - 1) : recs[k].name # X]

\* position of the first source that declares X
FirstSource(X) ==
    CHOOSE i \in 1..Len(sources) :
        /\ Declares(sources[i].jarPath, X)
        /\ \A k \in 1..(i - 1) : ~Declares(sources[k].jarPath, X)

Collides(X) ==
    \E i, j \in 1..Len(sources) :
        i < j /\ Declares(sources[i].jarPath, X) /\ Declares(sources[j].jarPath, X)

InFlight(q) == pc[q] \in {"open", "read"}

\* C5: when two archives declare X, the catalog of a finished pass maps X to
\* the metadata of the one enumerated first, however the opens and reads of
\* the passes in flight interleave.
C5_FirstEnumeratedWins ==
    \A p \in Passes : pc[p] = "done" =>
        \A X \in MetaNames : Collides(X) =>
            /\ MapHas(sourceMap[p], X)
            /\ MapGet(sourceMap[p], X).source = sources[FirstSource(X)]
            /\ MapGet(sourceMap[p], X).description =
                    FirstDeclared(sources[FirstSource(X)].jarPath, X).description

\* a pass finished on a collision while another pass was still loading
C5_Witness ==
    \E p, q \in Passes :
        /\ pc[p] = "done" /\ InFlight(q)
        /\ \E X \in MetaNames :
              /\ Collides(X)
              /\ MapGet(sourceMap[p], X).source = sources[1]

\* C6: the catalog of a finished pass has exactly one entry for each name a
\* retained record declares; each entry is keyed by its metadata name and is
\* one of the candidates that declared the name.
C6_OneEntryPerName ==
    \A p \in Passes : pc[p] = "done" =>
        LET cat == sourceMap[p]
        IN /\ NoRepeats([i \in 1..Len(cat) |-> cat[i].key])
           /\ MapKeys(cat) =
                {X \in MetaNames : \E i \in 1..Len(sources) : Declares(sources[i].jarPath, X)}
           /\ \A i \in 1..Len(cat) :
                /\ cat[i].key = cat[i].val.name
                /\ \E s \in Range(sources) :
                      /\ cat[i].val.source = s
                      /\ \E r \in Range(RetainedRecs(s.jarPath)) :
                            /\ r.name = cat[i].val.name
                            /\ r.description = cat[i].val.description

\* a finished pass with two names in the catalog, one of them contested
C6_Witness ==
    \E p \in Passes :
        /\ pc[p] = "done"
        /\ Len(sourceMap[p]) = 2
        /\ \E X \in MetaNames : Collides(X)

\* the infos the duplicates map holds under source s
RecordedUnder(dups, s) == IF MapHas(dups, s) THEN Range(MapGet(dups, s)) ELSE {}

Recorded(dups) == UNION {Range(dups[i].val) : i \in 1..Len(dups)}

Uncached(jarPaths, root) == LibResolveJarPathsFromSettings(jarPaths, <<>>, root).returned

Basenames(paths) == {Basename(paths[i]) : i \in 1..Len(paths)}

ResultPaths == [i \in 1..Len(lastPass.result) |-> lastPass.result[i].jarPath]

FolderScope == Uncached(folderSettings[lastPass.folder], lastPass.folder)

WorkspaceScope == Uncached(userOrWorkspaceSettings, NoRoot)

ExtensionPassDone == lastPass.handler = "VDMJExtensionsHandler"

\* C8: after a getUserExtensionSources pass, every archive basename resolved
\* at both the folder scope and the workspace/user scope appears in the merged
\* list with the folder-scope path and with no other path.
C8_FolderScopeWins ==
    ExtensionPassDone =>
        \A i \in 1..Len(FolderScope) :
            Basename(FolderScope[i]) \in Basenames(WorkspaceScope) =>
                {p \in Range(ResultPaths) : Basename(p) = Basename(FolderScope[i])}
                    = {FolderScope[i]}

\* C9: after a getUserExtensionSources pass over declared lists that differ,
\* the merged list is the folder-scope archives followed by the
\* workspace/user-scope archives whose basename the folder scope lacks.
C9_MergeOfBothScopes ==
    (ExtensionPassDone
        /\ SettingsDiffer(folderSettings[lastPass.folder], userOrWorkspaceSettings)) =>
        ResultPaths = FolderScope \o FilterExisting(WorkspaceScope, FolderScope)

\* C10: every resolveJarPathsFromSettings call of a getUserExtensionSources
\* pass returns what the resolver without a cache returns for the call's own
\* declared list and root.
C10_CallResolvesOwnArguments ==
    ExtensionPassDone =>
        \A i \in 1..Len(lastPass.calls) :
            lastPass.calls[i].returned
                = Uncached(lastPass.calls[i].jarPaths, lastPass.calls[i].root)

\* how often a declared path occurs in a declared list
Occurrences(list, x) == Cardinality({i \in 1..Len(list) : list[i] = x})

\* same length and same elements irrespective of order
SameDeclared(fs, uws) ==
    /\ Len(fs) = Len(uws)
    /\ \A x \in DeclaredPaths : Occurrences(fs, x) = Occurrences(uws, x)

PassDone == lastPass.handler # "none"

\* the pass resolved the folder scope only
FolderScopeOnly == Len(lastPass.calls) = 1

\* C11: a pass of either handler leaves the workspace/user scope out exactly
\* when the two declared lists have the same length and the same elements
\* irrespective of order; in every other case it merges the two scopes.
C11_RedundantIffSameDeclared ==
    PassDone =>
        (FolderScopeOnly <=>
            SameDeclared(folderSettings[lastPass.folder], userOrWorkspaceSettings))

\* the archives a call's declared list expands to, before basenames are
\* deduplicated
Expansion(call) == FlatMapResolve(call.jarPaths, call.root).paths

\* position i holds the first path of its basename
FirstOfBasename(paths, i) ==
    \A k \in 1..(i - 1) : Basename(paths[k]) # Basename(paths[i])

DistinctBasenames(paths) ==
    \A i, k \in 1..Len(paths) : i # k => Basename(paths[i]) # Basename(paths[k])

\* the returned list holds, for each basename of the call's expansion, the
\* first path with that basename and no other path
KeepsFirstPerBasename(call) ==
    /\ DistinctBasenames(call.returned)
    /\ Range(call.returned)
         = {Expansion(call)[i] : i \in {j \in 1..Len(Expansion(call)) :
                                            FirstOfBasename(Expansion(call), j)}}

\* C12: every resolveJarPathsFromSettings call of a pass, of either handler,
\* returns a list without repeated basenames that keeps, for each basename
\* of the call's own expansion, the first path and drops the later ones.
C12_FirstPathPerBasename ==
    PassDone => \A i \in 1..Len(lastPass.calls) : KeepsFirstPerBasename(lastPass.calls[i])

\* the declared path names nothing on disk when resolved for the given root
Missing(declared, root) ==
    ~ExistsSync(IF root # NoRoot /\ ~IsAbsolute(declared)
                THEN PathResolve(root, declared)
                ELSE declared)

MissingRecorded(list, root) ==
    \A i \in 1..Len(list) : Missing(list[i], root) => list[i] \in Range(lastPass.failed)

\* C13: after every pass, each declared path of the folder scope that does
\* not exist is in the failed-path list, and so is each missing path of the
\* workspace/user scope when the pass resolves that scope.
C13_MissingPathsRecorded ==
    PassDone =>
        /\ MissingRecorded(folderSettings[lastPass.folder], lastPass.folder)
        /\ ~FolderScopeOnly => MissingRecorded(userOrWorkspaceSettings, NoRoot)

(***************************************************************************)
(* Assembly of the source list: claims                                     *)
(***************************************************************************)
SourcesDone == allSources.kind # "none"

ReturnedPaths == [i \in 1..Len(allSources.result) |-> allSources.result[i].jarPath]

\* C15: the list a getAll...Sources call returns never holds two sources
\* with the same archive basename.
C15_NoRepeatedBasename == SourcesDone => DistinctBasenames(ReturnedPaths)

\* user-declared before host-provided before built-in
StageRank(jarPath) ==
    IF jarPath \in UserPaths THEN 1 ELSE IF jarPath \in HostPaths THEN 2 ELSE 3

\* C16: in the list a getAll...Sources call returns, every user-declared
\* source precedes every host-provided one, and every host-provided source
\* precedes every built-in one.
C16_UserHostBuiltinOrder ==
    SourcesDone =>
        \A i, k \in 1..Len(ReturnedPaths) :
            i < k => StageRank(ReturnedPaths[i]) <= StageRank(ReturnedPaths[k])

\* the archive opens and holds the metadata entry of the kind
HoldsMetadata(jarPath, k) ==
    jarFiles[jarPath].opens /\ FileExists(jarFiles[jarPath], MetaFileTest(k))

\* C17: after a getAll...Sources call of any kind, every host-provided
\* archive that holds the kind's metadata entry and whose basename no
\* user-declared source has is in the returned list.
C17_HostProvidedIncluded ==
    SourcesDone =>
        \A i \in 1..Len(enhancementPaths) :
            (/\ HoldsMetadata(enhancementPaths[i], allSources.kind)
             /\ Basename(enhancementPaths[i]) \notin SourceBasenames(userExtensionSources))
                => enhancementPaths[i] \in Range(ReturnedPaths)

(***************************************************************************)
(* Search-path resolution: repeated passes                                 *)
(***************************************************************************)
\* the plugin.json of an archive on disk: /w/a.jar declares Y, the other
\* archives declare X
InstalledPlugin(src) ==
    [name |-> IF src.jarPath = Path(TRUE, "w", "a.jar") THEN "Y" ELSE "X",
     description |-> src.jarPath, dialects |-> {"vdmsl"},
     precision |-> "standard", source |-> src]

\* the plugin catalog of a source list: first source of a name wins
CatalogOf(srcs) ==
    PickWinners(PushCandidates(<<>>, [i \in 1..Len(srcs) |-> InstalledPlugin(srcs[i])]))

PassCatalog == CatalogOf(lastPass.result)

\* a getUserExtensionSources pass that follows a pass for the same folder
SameFolderAgain ==
    /\ ExtensionPassDone
    /\ lastPass'.handler = "VDMJExtensionsHandler"
    /\ lastPass'.folder = lastPass.folder

\* C14: a getUserExtensionSources pass that directly follows one for the
\* same folder returns the same source list, and the catalog built from it
\* has the same name-to-source mapping, whatever the session cache holds.
C14_RepeatedPassSameCatalog ==
    [][SameFolderAgain =>
          /\ lastPass'.result = lastPass.result
          /\ PassCatalog' = PassCatalog]_vars

\* the second of two passes for one folder, answered from a cache that a
\* pass for another folder filled, with a name collision in the catalog
C14_Witness ==
    /\ ExtensionPassDone
    /\ lastPass.repeated
    /\ ResultPaths # FolderScope
    /\ Len(PassCatalog) < Len(lastPass.result)

(***************************************************************************)
(* Discovery passes: archives without metadata, archives that do not open  *)
(***************************************************************************)
\* the names the archives of the source list declare to a pass
DeclaredNames ==
    {X \in MetaNames : \E i \in 1..Len(sources) : Declares(sources[i].jarPath, X)}

\* the pass did not end in a rejection, and a finished pass has the catalog
\* of the archives that hold metadata
CompletesWithRemaining(p) ==
    /\ pc[p] # "failed"
    /\ pc[p] = "done" => MapKeys(sourceMap[p]) = DeclaredNames

\* the user-declared archive holds its metadata, the built-in one opens but
\* has no metadata entry
BuiltinLacksMetadata ==
    /\ sources # <<>>
    /\ jarMeta["j1"].status = "ok"
    /\ jarMeta["j2"].status = "nometa"

\* C18: when the built-in archive of the source list lacks its kind's
\* metadata entry, a pass of any kind skips it, does not fail, and finishes
\* with the catalog of the other archive.
C18_MissingMetadataSkipped ==
    BuiltinLacksMetadata => \A p \in Passes : CompletesWithRemaining(p)

\* the user-declared archive holds its metadata, the built-in one cannot be
\* opened
BuiltinDoesNotOpen ==
    /\ sources # <<>>
    /\ jarMeta["j1"].status = "ok"
    /\ jarMeta["j2"].status = "corrupt"

\* C19: when the built-in archive of the source list cannot be opened, a
\* pass of any kind does not fail and finishes with the catalog of the other
\* archive.
C19_UnopenableArchiveSkipped ==
    BuiltinDoesNotOpen => \A p \in Passes : CompletesWithRemaining(p)

(***************************************************************************)
(* Discovery passes: the dialect and precision filter                      *)
(***************************************************************************)
\* the precision mode the pass's precision argument stands for: the
\* management commands and the server launch pass "standard" for a standard
\* precision folder and "high" or "hp" for a high precision one
ActiveMode == IF precision = "standard" THEN "standard" ELSE "high"

\* some archive of the source list declares X for the dialect in use and the
\* active precision mode, an omitted precision counting as standard
DeclaredForMode(X) ==
    \E i \in 1..Len(sources) :
        /\ jarMeta[sources[i].jarPath].status = "ok"
        /\ \E r \in Range(jarMeta[sources[i].jarPath].recs) :
              /\ r.name = X
              /\ dialect \in r.dialects
              /\ (IF r.precision = "undefined" THEN "standard" ELSE r.precision)
                    = ActiveMode

\* C20: the catalog of a finished plugin or annotation pass holds a name
\* exactly when some record declares it for the dialect in use and for the
\* folder's active precision mode.
C20_RetainedIffDialectAndMode ==
    \A p \in Passes :
        (kind # "library" /\ pc[p] = "done") =>
            \A X \in MetaNames : MapHas(sourceMap[p], X) <=> DeclaredForMode(X)


(***************************************************************************)
(* C21 - C25: enablement state                                             *)
(***************************************************************************)
PersistedEnabled(n) == n \in DOMAIN enabledConfiguration /\ enabledConfiguration[n]

PersistedDisabled(n) == n \in DOMAIN enabledConfiguration /\ ~enabledConfiguration[n]

DefaultEnabled(n) == n \in {"quickcheck", "uml"}

EnabledIn(state, n) == \E i \in 1..Len(state) : state[i].key = n /\ state[i].val.enabled

\* the selection dialog is open on the state just derived
Derived == managePc = "prompt"

\* C21: the derived state has exactly the catalog's names as keys; a plugin is
\* enabled iff it is stored as enabled, or is default-enabled and not stored
\* as disabled; an annotation is enabled iff it is stored as enabled.
C21_DerivedEnablement ==
    Derived =>
       /\ MapKeys(initialState) = MapKeys(discovered)
       /\ Len(initialState) = Len(discovered)
       /\ \A n \in MapKeys(discovered) :
             EnabledIn(initialState, n) <=>
                IF extKind = "plugin"
                THEN PersistedEnabled(n) \/ (DefaultEnabled(n) /\ ~PersistedDisabled(n))
                ELSE PersistedEnabled(n)

C21_Witness ==
    /\ Derived /\ extKind = "plugin"
    /\ {"quickcheck", "P1", "P2"} = MapKeys(discovered)
    /\ PersistedDisabled("quickcheck") /\ ~EnabledIn(initialState, "quickcheck")
    /\ PersistedEnabled("P1") /\ EnabledIn(initialState, "P1")
    /\ "P2" \notin DOMAIN enabledConfiguration /\ ~EnabledIn(initialState, "P2")

\* the last command ended with a confirmed selection
Confirmed == managePc = "idle" /\ manageRun.finished /\ manageRun.answer.defined

\* C22: after a confirmed selection the updated state has the keys of the
\* current state and a name is enabled iff it is in the selection.
C22_SelectionReplacesFlags ==
    Confirmed =>
       /\ MapKeys(updatedState.value) = MapKeys(initialState)
       /\ Len(updatedState.value) = Len(initialState)
       /\ \A n \in MapKeys(initialState) :
             EnabledIn(updatedState.value, n) <=> n \in Range(manageRun.answer.value)

C22_Witness ==
    /\ Confirmed
    /\ MapKeys(initialState) = {"P1", "P2"}
    /\ EnabledIn(initialState, "P1") /\ ~EnabledIn(initialState, "P2")
    /\ manageRun.answer.value = <<"P2">>
    /\ ~EnabledIn(updatedState.value, "P1") /\ EnabledIn(updatedState.value, "P2")

\* the step in which the dialog settles and the handler finishes
Settles == managePc = "prompt" /\ managePc' = "idle"

\* C23: the handler writes the setting only when a selection was confirmed and
\* the updated state differs from the initial one in some flag; in every other
\* case, and in every other step, the stored setting stays as it is.
C23_WritesOnlyChanges ==
    [][IF Settles
       THEN LET differs ==
                   /\ manageRun'.answer.defined
                   /\ \E n \in MapKeys(initialState) :
                         EnabledIn(initialState, n) # EnabledIn(updatedState'.value, n)
            IN /\ manageRun'.wrote => differs
               /\ ~differs => ~manageRun'.wrote
                                /\ enabledConfiguration' = enabledConfiguration
       ELSE enabledConfiguration' = enabledConfiguration]_vars

C23_Witness ==
    /\ Confirmed
    /\ manageRun.answer.value # <<>>
    /\ \A n \in MapKeys(initialState) :
          EnabledIn(initialState, n) <=> n \in Range(manageRun.answer.value)
    /\ ~manageRun.wrote
    /\ \E n \in MapKeys(initialState) : n \notin DOMAIN enabledConfiguration

\* C24: for two states over the same names areStatesEqual is true iff every
\* name has the same flag in both, whatever the other fields are, and two
\* states derived from the same stored setting compare equal.
C24_EqualIffSameFlags ==
    compared.called =>
       /\ MapKeys(compared.a) = MapKeys(compared.b)
       /\ compared.result <=>
             \A n \in MapKeys(compared.a) :
                EnabledIn(compared.a, n) <=> EnabledIn(compared.b, n)
       /\ compared.sameSettings => compared.result

C24_Witness ==
    /\ compared.called /\ compared.result
    /\ compared.a # compared.b
    /\ ~compared.sameSettings
    /\ \E n, m \in MapKeys(compared.a) : EnabledIn(compared.a, n) /\ ~EnabledIn(compared.a, m)

\* position of the entry of a state that owns an archive path
OwnerIndex(state, p) == CHOOSE i \in 1..Len(state) : state[i].val.source.jarPath = p

\* C25: getClasspathAdditions returns the archive path of every enabled entry
\* and of no disabled one, once each, in the order of the state.
C25_ClasspathIsEnabledPaths ==
    classpathAdditions.defined =>
       LET state == classpathAdditions.value.state
           paths == classpathAdditions.value.paths
       IN /\ Range(paths) = {state[i].val.source.jarPath :
                                i \in {j \in 1..Len(state) : state[j].val.enabled}}
          /\ \A i, j \in 1..Len(paths) :
                i < j => OwnerIndex(state, paths[i]) < OwnerIndex(state, paths[j])

C25_Witness ==
    /\ classpathAdditions.defined
    /\ Len(classpathAdditions.value.state) = 3
    /\ classpathAdditions.value.state[1].val.enabled
    /\ ~classpathAdditions.value.state[2].val.enabled
    /\ classpathAdditions.value.state[3].val.enabled
    /\ Len(classpathAdditions.value.paths) = 2


(***************************************************************************)
(* C26 - C28: JarFile                                                      *)
(***************************************************************************)
\* a call made on the open handle has settled
SettledOnOpen == readCall.pc = "settled" /\ ~readCall.closedAtCall

\* C26: a readFile call on an open handle resolves to the content of the
\* requested entry when the archive holds it and to undefined otherwise,
\* whatever was read before and also after the table was scanned to its end.
C26_ReadResolvesEntryOrUndefined ==
    SettledOnOpen =>
       IF readCall.path \in Range(zipEntries)
       THEN readCall.outcome = "data" /\ readCall.data = readCall.path
       ELSE readCall.outcome = "undefined"

\* a new readFile call starts in this step
CallStarts == readCall' # readCall /\ readCall'.pc # "settled" /\ readCall.pc # "scanning"

\* C27: every entry of the table is pulled at most once; a request for a
\* visited entry is served from the cache without advancing the scan, and
\* the scan advances only by one entry, only for a call whose path has not
\* been visited, so it stops at the first match.
C27_EntriesPulledOnce ==
    [][/\ \A i \in DOMAIN pulled : pulled'[i] <= 1
       /\ entriesRead' # entriesRead =>
             /\ entriesRead' = entriesRead + 1
             /\ readCall.pc = "scanning"
             /\ readCall.path \notin DOMAIN cachedEntries
             /\ zipEntries[entriesRead'] \notin DOMAIN cachedEntries
       /\ (CallStarts /\ readCall'.path \in DOMAIN cachedEntries) =>
             /\ readCall'.pc = "streaming"
             /\ readCall'.entry = cachedEntries[readCall'.path]
             /\ ~readEntryPending'
             /\ entriesRead' = entriesRead]_vars

C27_Witness ==
    /\ readCall.pc = "settled" /\ readCall.outcome = "data"
    /\ readCall.entry < entriesRead
    /\ entriesRead < Len(zipEntries)
    /\ pulled[entriesRead] = 1
    /\ ~readEntryPending

\* C28: close() never throws, whether the handle is idle, scanning, streaming
\* or already closed, and a readFile call made after close() fails with an
\* error instead of returning data or undefined.
C28_CloseThenReadFails ==
    /\ ~closeCall.threw
    /\ readerRefs >= 0
    /\ closeCall.called => ~isOpen
    /\ (readCall.pc # "none" /\ readCall.closedAtCall) =>
          readCall.pc = "settled" /\ readCall.outcome = "error"

C28_Witness ==
    /\ closeCall.called /\ closeCall.during = "scanning"
    /\ entriesRead = Len(zipEntries)
    /\ readCall.closedAtCall /\ readCall.outcome = "error"
    /\ readCall.path \notin DOMAIN cachedEntries


(***************************************************************************)
(* C29, C30: adding libraries with unresolved dependencies, missing files  *)
(***************************************************************************)
\* the names a discovered library declares
DependsDeclared(n) ==
    IF MapHas(discoveredLibraries, n)
    THEN Range(MapGet(discoveredLibraries, n).depends) ELSE {}

RECURSIVE Needed(_)
Needed(S) ==
    LET T == S \cup UNION {DependsDeclared(n) : n \in S}
    IN IF T = S THEN S ELSE Needed(T)

\* every name a library needs, directly or through its dependencies
NeedsOf(n) == Needed(DependsDeclared(n))

\* the needed names no archive declares
UnresolvedOf(n) == {d \in NeedsOf(n) : ~MapHas(discoveredLibraries, d)}

\* no discovered library needs itself
NoCycle == \A n \in MapKeys(discoveredLibraries) : n \notin NeedsOf(n)

\* the import map lists library n under the archive it comes from
Placed(n) ==
    \E i \in 1..Len(addRun.importMap) :
        /\ addRun.importMap[i].key = MapGet(discoveredLibraries, n).source
        /\ \E k \in 1..Len(addRun.importMap[i].val) : addRun.importMap[i].val[k].name = n

\* the position of an archive in the import map
EntryOf(source) == CHOOSE i \in 1..Len(addRun.importMap) : addRun.importMap[i].key = source

WrittenRecords == Range(addRun.copy.written)

\* the copy went over the archive of library n and wrote the files of n it holds
FilesCopied(n) ==
    LET info == MapGet(discoveredLibraries, n)
    IN /\ addRun.copied
       /\ (addRun.copy.failedAt = 0 \/ addRun.copy.failedAt >= EntryOf(info.source))
             => \A f \in Range(info.files) \cap archiveFiles[info.source.jarPath] :
                   [jarPath |-> info.source.jarPath, file |-> f] \in WrittenRecords

\* a warning about library n names every name it could not resolve
WarnedOfAll(n) ==
    \E w \in 1..Len(addRun.warnings) :
        /\ addRun.warnings[w].library = n
        /\ UnresolvedOf(n) \subseteq Range(addRun.warnings[w].names)

StillAdded(n) ==
    /\ Placed(n)
    /\ \A d \in NeedsOf(n) : MapHas(discoveredLibraries, d) => Placed(d)
    /\ FilesCopied(n)
    /\ WarnedOfAll(n)

\* C29: a selected library with an unresolved dependency is still placed in
\* the import map with its resolved dependencies, its files are copied, and a
\* warning lists every unresolved name.
C29_UnresolvedStillAdded ==
    \A i \in 1..Len(addRun.selected) :
        UnresolvedOf(addRun.selected[i]) # {} => StillAdded(addRun.selected[i])

\* the same, where no library needs itself
C29_UnresolvedStillAddedNoCycle == NoCycle => C29_UnresolvedStillAdded

C29_NoCycleWitness ==
    /\ NoCycle
    /\ Len(addRun.selected) = 1 /\ addRun.selected[1] = "L"
    /\ UnresolvedOf("L") = {"X"}
    /\ MapHas(discoveredLibraries, "A") /\ "A" \in NeedsOf("L")
    /\ StillAdded("L")
    /\ Len(addRun.importMap) = 2

\* the declared files of entry i of the import map, and the ones its archive lacks
DeclaredAt(i) == GetLibFileNames(addRun.importMap[i].val)

HeldAt(i) == archiveFiles[addRun.importMap[i].key.jarPath]

Lacking(i) == \E k \in 1..Len(DeclaredAt(i)) : DeclaredAt(i)[k] \notin HeldAt(i)

FirstLacking == CHOOSE i \in 1..Len(addRun.importMap) :
                    Lacking(i) /\ \A j \in 1..(i - 1) : ~Lacking(j)

FirstMissing(i) == CHOOSE k \in 1..Len(DeclaredAt(i)) :
                      /\ DeclaredAt(i)[k] \notin HeldAt(i)
                      /\ \A j \in 1..(k - 1) : DeclaredAt(i)[j] \in HeldAt(i)

RecordAt(i, k) == [jarPath |-> addRun.importMap[i].key.jarPath, file |-> DeclaredAt(i)[k]]

Throws == addRun.copy.threw <=> \E i \in 1..Len(addRun.importMap) : Lacking(i)

EarlierRemain(i) ==
    \A j \in 1..(i - 1) : \A k \in 1..Len(DeclaredAt(j)) : RecordAt(j, k) \in WrittenRecords

LaterUntouched(i) ==
    \A j \in (i + 1)..Len(addRun.importMap) :
        \A k \in 1..Len(DeclaredAt(j)) : RecordAt(j, k) \notin WrittenRecords

\* C30 as stated: the copy throws at the first missing file: files declared after
\* it in the same archive are not written, files before it are, later archives
\* are not processed.
C30_ThrowsAtFirstMissing ==
    addRun.copied =>
        /\ Throws
        /\ addRun.copy.threw =>
              LET i == FirstLacking
                  m == FirstMissing(i)
              IN /\ addRun.copy.failedAt = i
                 /\ \A k \in 1..(m - 1) : RecordAt(i, k) \in WrittenRecords
                 /\ \A k \in m..Len(DeclaredAt(i)) : RecordAt(i, k) \notin WrittenRecords
                 /\ EarlierRemain(i)
                 /\ LaterUntouched(i)

\* C30: the copy throws once it has gone through every declared file of the
\* first archive that lacks one: the files that archive holds, declared before
\* or after the missing one, are written, the missing ones are not, files
\* written before remain, and later archives are not processed.
C30_ThrowsAfterArchiveWithMissing ==
    addRun.copied =>
        /\ Throws
        /\ addRun.copy.threw =>
              LET i == FirstLacking
              IN /\ addRun.copy.failedAt = i
                 /\ \A k \in 1..Len(DeclaredAt(i)) :
                       RecordAt(i, k) \in WrittenRecords <=> DeclaredAt(i)[k] \in HeldAt(i)
                 /\ EarlierRemain(i)
                 /\ LaterUntouched(i)

C30_Witness ==
    /\ addRun.copied /\ addRun.copy.threw
    /\ Len(addRun.importMap) = 2
    /\ LET i == FirstLacking
           m == FirstMissing(i)
       IN /\ m > 1 /\ m < Len(DeclaredAt(i))
          /\ RecordAt(i, m - 1) \in WrittenRecords
          /\ RecordAt(i, m + 1) \in WrittenRecords
          /\ i < Len(addRun.importMap)
          /\ LaterUntouched(i)

\* a copy that stops at an archive after other archives were written in full
C30_EarlierWitness ==
    /\ addRun.copied /\ addRun.copy.threw
    /\ addRun.copy.failedAt = 2
    /\ EarlierRemain(2) /\ Len(addRun.copy.written) > 0


(***************************************************************************)
(* C32: the annotation source filter                                       *)
(***************************************************************************)
\* the user-declared sources and the host-provided ones that are offered to
\* the filter of kind k
OfferedSources(k) ==
    Range(userExtensionSources) \cup Range(GetExtensionExtensionSources(StagesOf(k).user))

HoldsReadEntry(s, k) ==
    jarFiles[s.jarPath].opens /\ MetaFileRead(k) \in jarFiles[s.jarPath].entries

FilterMatchesRead(k) ==
    /\ \A s \in OfferedSources(k) : HoldsReadEntry(s, k) => s \in Range(allSources.result)
    /\ \A s \in Range(allSources.result) : s.type = "user" => HoldsReadEntry(s, k)

\* C32: a user-declared or host-provided archive that holds
\* META-INF/annotation.json passes the annotation source filter, and every
\* returned user or host source has that entry.
C32_AnnotationFilterMatchesRead ==
    allSources.kind = "annotation" => FilterMatchesRead("annotation")

\* the same for the plugin pass and META-INF/plugin.json
C32_PluginFilterMatchesRead ==
    allSources.kind = "plugin" => FilterMatchesRead("plugin")

C32_PluginWitness ==
    /\ allSources.kind = "plugin"
    /\ \E s \in OfferedSources("plugin") :
          HoldsReadEntry(s, "plugin") /\ s \in Range(allSources.result)
    /\ \E s \in OfferedSources("plugin") : ~HoldsReadEntry(s, "plugin")

(***************************************************************************)
(* C33-C35: confirming unchanged, the state passed in, reading back        *)
(***************************************************************************)
\* the items the dialog shows ticked: picked = info.enabled
PrePicked ==
    SelectSeq(QuickPickItems(extKind, initialState),
              LAMBDA n : MapGet(initialState, n).enabled)

\* the handler has just returned from a dialog confirmed as it was shown
ConfirmedUnchanged ==
    /\ managePc = "idle"
    /\ manageRun.finished
    /\ manageRun.answer.defined
    /\ manageRun.answer.value = PrePicked

\* C33: confirming the dialog with the pre-picked items unchanged gives an
\* updated state equal to the initial one and writes nothing, for plugins and
\* annotations, also when an enabled entry comes from a built-in source.
C33_UnchangedWritesNothing ==
    ConfirmedUnchanged => manageRun.equal /\ ~manageRun.wrote

\* an enabled entry the dialog does not show
HiddenEnabled ==
    \E i \in 1..Len(initialState) :
        /\ initialState[i].val.enabled
        /\ initialState[i].key \notin Range(QuickPickItems(extKind, initialState))

\* the same, where every enabled entry is among the items shown
C33_UnchangedWritesNothingAllShown ==
    (ConfirmedUnchanged /\ ~HiddenEnabled) => manageRun.equal /\ ~manageRun.wrote

C33_AllShownWitness ==
    /\ ConfirmedUnchanged /\ ~HiddenEnabled
    /\ extKind = "plugin"
    /\ \E i \in 1..Len(initialState) :
          initialState[i].val.enabled /\ initialState[i].val.source.type = "builtin"
    /\ manageRun.equal /\ ~manageRun.wrote

FlagsOf(state) == [n \in MapKeys(state) |-> MapGet(state, n).enabled]

\* C35: after handleManagePlugins wrote an updated state, getPluginState over
\* the same catalog reading the written map gives the flags of the updated
\* state, and the written map has a boolean for every catalog name.
C35_WrittenStateReadsBack ==
    (extKind = "plugin" /\ manageRun.wrote) =>
        /\ FlagsOf(GetPluginState(discovered, enabledConfiguration))
              = FlagsOf(updatedState.value)
        /\ DOMAIN enabledConfiguration = MapKeys(discovered)
        /\ \A n \in MapKeys(discovered) : enabledConfiguration[n] \in BOOLEAN

C35_Witness ==
    /\ extKind = "plugin" /\ manageRun.wrote
    /\ MapHas(discovered, "quickcheck")
    /\ MapGet(initialState, "quickcheck").enabled
    /\ ~MapGet(updatedState.value, "quickcheck").enabled
    /\ ~MapGet(GetPluginState(discovered, enabledConfiguration), "quickcheck").enabled


\* C34: the dialog step does not modify the state passed in: after it returns
\* every entry of the initial state has the flag it had before the call, so
\* the states compare equal exactly when the selection changed no flag.
C34_InitialStateUntouched ==
    promptCall.called =>
        /\ \A i \in 1..Len(promptCall.currentState) :
              objects[promptCall.currentState[i].val].enabled
                 = promptCall.before[promptCall.currentState[i].key]
        /\ promptCall.answer.defined =>
              (promptCall.equal <=>
                 \A n \in DOMAIN promptCall.before :
                    promptCall.before[n] = (n \in Range(promptCall.answer.value)))

C34_Witness ==
    /\ promptCall.called /\ promptCall.answer.defined
    /\ ~promptCall.equal
    /\ \E n \in DOMAIN promptCall.before :
          promptCall.before[n] /\ n \notin Range(promptCall.answer.value)
    /\ \E n \in DOMAIN promptCall.before :
          ~promptCall.before[n] /\ n \in Range(promptCall.answer.value)


(***************************************************************************)
(* C36, C37: calls in flight                                               *)
(***************************************************************************)
\* a settled call resolved to the content of its entry, or to undefined when
\* the archive has no such entry
ResolvedOwn(call) ==
    IF call.path \in Range(pairEntries)
    THEN call.outcome = "data" /\ call.data = call.path
    ELSE call.outcome = "undefined"

\* C36: two readFile calls in flight at the same time, both for entries not
\* yet cached, each resolve to the content of their own entry, or to
\* undefined when it does not exist; neither misses an entry through the
\* other's scan.
C36_ConcurrentReadsResolveOwn ==
    scans.together =>
        /\ ~central.emittedError
        /\ \A k \in ScanCalls : scans.calls[k].pc = "settled" => ResolvedOwn(scans.calls[k])

\* the same for calls whose scans do not overlap
C36_SeparateScansResolveOwn ==
    ~scans.together =>
        /\ ~central.emittedError
        /\ \A k \in ScanCalls : scans.calls[k].pc = "settled" => ResolvedOwn(scans.calls[k])

C36_SeparateWitness ==
    /\ ~scans.together
    /\ \A k \in ScanCalls : scans.calls[k].pc = "settled"
    /\ scans.calls[1].outcome = "data" /\ scans.calls[2].outcome = "undefined"
    /\ scans.calls[1].path # scans.calls[2].path

ReadInFlight == readCall.pc \in {"scanning", "streaming"}

\* C37: every readFile call eventually settles, also one whose entry scan is
\* in progress when close() is called.
C37_EveryReadSettles == ReadInFlight ~> ~ReadInFlight

\* the same for the calls on a handle that is never closed
C37_SettlesUnlessClosed == ReadInFlight ~> (~ReadInFlight \/ closeCall.called)


(***************************************************************************)
(* C38: the class path of the spawned server                               *)
(***************************************************************************)
RECURSIVE Split(_, _)
\* the entries of a class path string: its pieces between delimiters; `cur`
\* is the entry being read
Split(str, cur) ==
    IF str = <<>> THEN (IF cur = <<>> THEN <<>> ELSE <<cur>>)
    ELSE IF str[1] = Delimiter
         THEN (IF cur = <<>> THEN <<>> ELSE <<cur>>) \o Split(Tail(str), <<>>)
         ELSE Split(Tail(str), Append(cur, str[1]))

ClassPathEntries == Split(classPath.value, <<>>)

EnabledJars(state) ==
    LET en == SelectSeq(state, LAMBDA e : e.val.enabled)
    IN [i \in 1..Len(en) |-> <<en[i].val.source.jarPath>>]

IsVdmjFolder(e) == e \in {JarPathVdmj \o <<Sep, "*">>, JarPathVdmjHp \o <<Sep, "*">>}

EntryOnDisk(cp) ==
    \/ cp \in launchEnv.existing
    \/ /\ Len(cp) >= 2 /\ cp[Len(cp)] = "*" /\ cp[Len(cp) - 1] = Sep
       /\ SubSeq(cp, 1, Len(cp) - 2) \in launchEnv.existing

\* C38: the class path lists all library source archives, the enabled plugin
\* archives, the enabled annotation archives, the existing user
\* classPathAdditions and last the bundled VDMJ folder; a user entry whose
\* path does not exist is left out.
C38_ClassPathOrder ==
    classPath.defined =>
        LET es == ClassPathEntries
            libs == [i \in 1..Len(launchEnv.librarySources) |->
                        <<launchEnv.librarySources[i].jarPath>>]
            user == SelectSeq(launchEnv.classPathAdditions, EntryOnDisk)
        IN /\ es = libs \o EnabledJars(launchEnv.pluginState)
                        \o EnabledJars(launchEnv.annotationState)
                        \o user \o <<es[Len(es)]>>
           /\ IsVdmjFolder(es[Len(es)])
           /\ \A i \in 1..Len(launchEnv.classPathAdditions) :
                 ~EntryOnDisk(launchEnv.classPathAdditions[i])
                    => \A k \in 1..Len(es) : es[k] # launchEnv.classPathAdditions[i]

C38_Witness ==
    /\ classPath.defined
    /\ Len(launchEnv.librarySources) = 2
    /\ \E i \in 1..Len(launchEnv.pluginState) : launchEnv.pluginState[i].val.enabled
    /\ \E i \in 1..Len(launchEnv.pluginState) : ~launchEnv.pluginState[i].val.enabled
    /\ \E i \in 1..Len(launchEnv.annotationState) : launchEnv.annotationState[i].val.enabled
    /\ launchEnv.classPathAdditions = <<<<"gone", Sep, "*">>, <<"lib", Sep, "*">>>>
    /\ Len(ClassPathEntries) = 6


(***************************************************************************)
(* C39: messages posted to the proof obligation webview                    *)
(***************************************************************************)
\* C39: a message is posted to the webview only after that webview has sent
\* readyToReceive, and no post is attempted while the panel reference is
\* undefined, whatever the order of pog runs, updates, QuickCheck completion
\* and the user closing the panel.
C39_PostsOnlyToReadyPanel ==
    \A m \in posted : m.panel # 0 /\ m.ready

\* the same as long as the user has not closed a panel
C39_PostsOnlyToReadyPanelUnclosed ==
    ~closed => \A m \in posted : m.panel # 0 /\ m.ready

C39_UnclosedWitness ==
    /\ ~closed
    /\ started.pog = MaxPogRuns /\ started.qc = MaxQcRuns
    /\ pogAwaiting = 0 /\ qcAwaiting = 0
    /\ {m.command : m \in posted} = PogCommands


(***************************************************************************)
(* C31: the discovery passes of the three kinds side by side               *)
(***************************************************************************)
\* the pass of a kind run alone from the given jarCache, start to end
AloneUser(k, cache) ==
    SelectSeq(UserExtensionSourcesOf(cache, PassFolder).result,
              LAMBDA src : PassesFilter(src, k))

AloneExtension(k, cache) ==
    SelectSeq(GetExtensionExtensionSources(AloneUser(k, cache)),
              LAMBDA src : PassesFilter(src, k))

AloneSources(k, cache) ==
    ConcatSources(k, AloneUser(k, cache),
                  GetDefaultExtensionSources(includedJarsPaths, AloneExtension(k, cache)),
                  AloneExtension(k, cache))

AloneRead(k, cache) ==
    IF k = "library" THEN LibCatalogSources(PassFolder) ELSE AloneSources(k, cache)

AloneCandidates(k, cache) ==
    LET srcs == AloneRead(k, cache)
        F[i \in 0..Len(srcs)] ==
            IF i = 0 THEN <<>> ELSE CandidatesAfter(F[i - 1], srcs[i], k)
    IN F[Len(srcs)]

AloneFails(k, cache) ==
    \E i \in 1..Len(AloneRead(k, cache)) : ReadFails(AloneRead(k, cache)[i], k)

AlonePass(k, cache) ==
    [sources |-> AloneSources(k, cache),
     failed |-> AloneFails(k, cache),
     catalog |-> IF AloneFails(k, cache) THEN <<>>
                 ELSE PickWinners(AloneCandidates(k, cache))]

Settled(k) == passes[k].pc \in {"done", "failed"}

PassOutcome(k) ==
    [sources |-> passes[k].sources,
     failed |-> passes[k].pc = "failed",
     catalog |-> passes[k].catalog]

\* C31: when the library, plugin and annotation passes run side by side for
\* one folder, interleaved at their awaits on archives, each pass ends with
\* the source list and the catalog it ends with when run alone; the shared
\* jarCache being filled by another pass changes no pass's result.
C31_ConcurrentAsAlone ==
    \A k \in Kinds : Settled(k) => PassOutcome(k) = AlonePass(k, cacheAtStart)

C31_Witness ==
    /\ \A k \in Kinds : passes[k].pc = "done"
    /\ overlapped
    /\ ~cacheAtStart.defined
    /\ Len(jarCache.value) = 2
    /\ \A k \in {"library", "plugin"} : passes[k].sources # <<>> /\ passes[k].catalog # <<>>
    /\ passes["plugin"].sources # passes["library"].sources

====
